---- MODULE Spec2Model ----
(***************************************************************************)
(* Gateway telemetry collector (AgentCollector, collector.mjs).            *)
(*                                                                         *)
(* JavaScript values are encoded as follows.  null/undefined is the empty  *)
(* tuple Null, a present value v is the one-element tuple Some(v); strings *)
(* that the code slices or interpolates are tuples of their parts.  A Map  *)
(* whose iteration order the code depends on is a sequence of entries in   *)
(* insertion order; the other Maps are functions.                          *)
(***************************************************************************)
EXTENDS Integers, Sequences, FiniteSets, TLC

VARIABLES
    config,         \* this.config: the agents array last read, Null before
    agents,         \* this.agents: Map id -> agent config (insertion order)
    gateways,       \* this.gateways: Map gwKey -> gateway (insertion order)
    agentGateway,   \* this.agentGateway: Map id -> gwKey
    state,          \* this.state: Map id -> display state record
    sockets,        \* every WebSocket created so far, by creation index
    reqCounter,     \* this._reqCounter
    pending,        \* this._pending: Map reqId -> {resolve, timer}
    callTimers,     \* armed 10 s request timers, in arming order
    reconnectTimers,\* armed 10 s reconnect timers, in arming order
    settleTimers,   \* armed 500 ms first-poll timers, in arming order
    rounds,         \* _pollGateway invocations suspended at their await
    pollTimer,      \* this._pollTimer: "null", "armed" or "cleared"
    emitted,        \* events emitted during the last callback turn
    written,        \* frames written to sockets during the last turn
    resolved,       \* promise resolvers invoked during the last turn
    opened,         \* sockets created (new WebSocket) during the last turn
    turn,           \* the callback that ran last: its kind and its arguments
    reloads,        \* loadConfig() calls made after start()
    hostMetrics,    \* this.hostMetrics
    hostEmitted,    \* hostMetrics events emitted during the last turn
    files,          \* ~/.openclaw/agents as the server's report functions read it
    returned        \* what the last call of a report function returned

vars == <<config, agents, gateways, agentGateway, state, sockets, reqCounter,
          pending, callTimers, reconnectTimers, settleTimers, rounds,
          pollTimer, emitted, written, resolved, opened, turn, reloads,
          hostMetrics, hostEmitted, files, returned>>

-----------------------------------------------------------------------------
(* Bounds of the model *)

MaxSockets == 2      \* WebSocket objects created in one behaviour
MaxReq == 7          \* cap on _reqCounter
MaxSettle == 1       \* first-poll timers armed at one time
MaxPending == 2      \* requests a caller of send() leaves pending at one time
MaxReloads == 1      \* loadConfig() calls after start()
MaxPollReq == 12     \* cap on _reqCounter where two poll rounds overlap

(* Program constants *)

TokenPrefixLen == 8
\* the delays of setTimeout, in milliseconds: a request's timeout, the pause
\* before a reconnect, the pause between hello-ok and the first poll
CallTimeoutMs == 10000
ReconnectMs == 10000
SettleMs == 500

-----------------------------------------------------------------------------
(* Values *)

Null == <<>>
Some(v) == <<v>>

Min(a, b) == IF a < b THEN a ELSE b

Range(s) == {s[i] : i \in 1..Len(s)}

\* String.prototype.slice(from, to) for 0 <= from <= to
Slice(s, from, to) == SubSeq(s, from + 1, Min(to, Len(s)))

RECURSIVE SelectIdx(_, _, _)
\* indices i >= from of s with Test(s[i]), here by key equality
SelectIdx(s, k, from) ==
    IF from > Len(s) THEN 0
    ELSE IF s[from].key = k THEN from
    ELSE SelectIdx(s, k, from + 1)

-----------------------------------------------------------------------------
(* Configuration inputs: agents.json *)

AgentIds == {"alice", "bob"}

TokA == <<"s", "e", "c", "r", "e", "t", "0", "1", "A">>
TokB == <<"s", "e", "c", "r", "e", "t", "0", "1", "B">>
TokC == <<"o", "t", "h", "e", "r", "t", "o", "k", "C">>
TokShort == <<"t">>

Hosts == {"127.0.0.1"}
Ports == {18789, 18790}
Tokens == {TokA, TokB, TokC, TokShort}

AgentCfg(id, host, port, token) ==
    [id |-> id, host |-> host, port |-> port, token |-> token,
     gatewayAgentId |-> Null]

AllAgentCfgs ==
    {AgentCfg(id, h, p, t) : id \in AgentIds, h \in Hosts, p \in Ports, t \in Tokens}

\* config.agents arrays with pairwise distinct ids
ConfigsOver(cfgs) ==
    {<<>>} \cup {<<a>> : a \in cfgs}
           \cup {<<a, b>> : <<a, b>> \in {p \in cfgs \X cfgs : p[1].id # p[2].id}}

AllConfigs == ConfigsOver(AllAgentCfgs)

\* the (host, port, token) triple of an agent
Triple(a) == <<a.host, a.port, a.token>>

-----------------------------------------------------------------------------
(* loadConfig *)

\* a key per agent, as if every agent had a connection of its own
GwKeyPerAgent(agent) ==
    <<agent.host, agent.port, Slice(agent.token, 0, TokenPrefixLen) \o <<agent.id>> >>
\* `${agent.host}:${agent.port}:${agent.token.slice(0, 8)}`
GwKey(agent) == <<agent.host, agent.port, Slice(agent.token, 0, TokenPrefixLen)>>

GwIndex(gws, k) == SelectIdx(gws, k, 1)
GwHas(gws, k) == GwIndex(gws, k) # 0
GwGet(gws, k) == gws[GwIndex(gws, k)]

NewGateway(agent) ==
    [key |-> GwKey(agent), host |-> agent.host, port |-> agent.port,
     token |-> agent.token, ws |-> 0, state |-> "disconnected",
     reconnectTimer |-> 0, agents |-> <<>>, rawData |-> Null]   \* rawData: {}

NewState(agent) ==
    [id |-> Some(agent.id),
     gatewayAgentId |-> IF agent.gatewayAgentId # Null THEN agent.gatewayAgentId
                        ELSE Some(<<agent.id>>),
     online |-> FALSE, lastSeen |-> Null, health |-> Null, sessions |-> Null,
     usage |-> Null, heartbeat |-> Null, presence |-> Null, channels |-> Null,
     cron |-> Null, error |-> Null]

AgentIndex(ags, id) ==
    IF \E i \in 1..Len(ags) : ags[i].id = id
    THEN CHOOSE i \in 1..Len(ags) : ags[i].id = id
    ELSE 0

\* Map.prototype.set on the agents map: an existing key keeps its position
AgentsSet(ags, agent) ==
    IF AgentIndex(ags, agent.id) # 0
    THEN [ags EXCEPT ![AgentIndex(ags, agent.id)] = agent]
    ELSE Append(ags, agent)

FilterSeq(s, Keep(_)) ==
    LET F[i \in 0..Len(s)] ==
            IF i = 0 THEN <<>>
            ELSE IF Keep(s[i]) THEN Append(F[i - 1], s[i]) ELSE F[i - 1]
    IN  F[Len(s)]

Restrict(f, S) == [x \in S |-> f[x]]

\* the pruning without this.state.delete(id)
PruneAgentsKeepsState(m, cfg) ==
    LET currentIds == {cfg[i].id : i \in 1..Len(cfg)}
    IN  [m EXCEPT !.agents = FilterSeq(m.agents, LAMBDA a : a.id \in currentIds)]
\* lines 50-57: prune the agents that left the configuration
PruneAgents(m, cfg) ==
    LET currentIds == {cfg[i].id : i \in 1..Len(cfg)}
        gone == FilterSeq(m.agents, LAMBDA a : a.id \notin currentIds)
    IN  [m EXCEPT
            !.agents = FilterSeq(m.agents, LAMBDA a : a.id \in currentIds),
            !.state = Restrict(m.state, DOMAIN m.state \ Range([i \in 1..Len(gone) |-> gone[i].id])),
            !.agentGateway = Restrict(m.agentGateway,
                 DOMAIN m.agentGateway \ Range([i \in 1..Len(gone) |-> gone[i].id])),
            !.emitted = m.emitted \o
                 [i \in 1..Len(gone) |->
                    [id |-> gone[i].id, state |-> Null, removed |-> TRUE]]]

\* line 60: clear every gateway's agent list
ClearGatewayAgents(gws) == [i \in 1..Len(gws) |-> [gws[i] EXCEPT !.agents = <<>>]]

\* lines 66-72: create the gateway entry unless the key is present
EnsureGateway(gws, agent) ==
    IF GwHas(gws, GwKey(agent)) THEN gws ELSE Append(gws, NewGateway(agent))

\* lines 75-83: create the state record unless the id has one
EnsureState(st, agent) ==
    IF agent.id \in DOMAIN st THEN st
    ELSE [id \in DOMAIN st \cup {agent.id} |->
            IF id = agent.id THEN NewState(agent) ELSE st[id]]

\* lines 62-84: one iteration of the loop over config.agents
AddAgent(m, agent) ==
    LET gws == EnsureGateway(m.gateways, agent)
        i == GwIndex(gws, GwKey(agent))
    IN  [m EXCEPT
            !.agents = AgentsSet(m.agents, agent),
            !.agentGateway = [id \in DOMAIN m.agentGateway \cup {agent.id} |->
                                IF id = agent.id THEN GwKey(agent)
                                ELSE m.agentGateway[id]],
            !.gateways = [gws EXCEPT ![i].agents = Append(gws[i].agents, agent)],
            !.state = EnsureState(m.state, agent)]

RECURSIVE AddAgents(_, _, _)
AddAgents(m, cfg, i) ==
    IF i > Len(cfg) THEN m ELSE AddAgents(AddAgent(m, cfg[i]), cfg, i + 1)

\* WebSocket.prototype.close(): a socket that is not yet closed starts closing;
\* a socket still connecting aborts its handshake, which emits error then close
WsClose(socks, s) ==
    IF s = 0 \/ socks[s].readyState \in {"CLOSING", "CLOSED"} THEN socks
    ELSE [socks EXCEPT ![s].readyState = "CLOSING",
                       ![s].errorDue = (socks[s].readyState = "CONNECTING")]

\* clearTimeout on a reconnect timer handle
ClearReconnect(ts, h) == FilterSeq(ts, LAMBDA t : t.h # h)

RECURSIVE RemoveEmpty(_, _)
\* lines 87-93: close, disarm and delete the gateways left without agents
RemoveEmpty(m, i) ==
    IF i > Len(m.gateways) THEN m
    ELSE LET gw == m.gateways[i]
         IN  IF Len(gw.agents) = 0
             THEN RemoveEmpty(
                    [m EXCEPT
                       !.sockets = [s \in DOMAIN m.sockets |->
                            IF m.sockets[s].key = gw.key /\ ~m.sockets[s].detached
                            THEN [WsClose(m.sockets, gw.ws)[s] EXCEPT !.detached = TRUE]
                            ELSE m.sockets[s]],
                       !.rounds = [r \in DOMAIN m.rounds |->
                            IF m.rounds[r].key = gw.key
                            THEN [m.rounds[r] EXCEPT !.detached = TRUE]
                            ELSE m.rounds[r]],
                       !.reconnectTimers = ClearReconnect(m.reconnectTimers, gw.reconnectTimer),
                       !.gateways = SubSeq(m.gateways, 1, i - 1)
                                    \o SubSeq(m.gateways, i + 1, Len(m.gateways))],
                    i)
             ELSE RemoveEmpty(m, i + 1)

\* the collector's mutable fields as one record, threaded through a handler
Mem ==
    [agents |-> agents, gateways |-> gateways, agentGateway |-> agentGateway,
     state |-> state, sockets |-> sockets, reqCounter |-> reqCounter,
     pending |-> pending, callTimers |-> callTimers,
     reconnectTimers |-> reconnectTimers, settleTimers |-> settleTimers,
     rounds |-> rounds, emitted |-> <<>>, written |-> <<>>, resolved |-> <<>>,
     opened |-> <<>>, hostMetrics |-> hostMetrics, hostEmitted |-> <<>>]

\* the next state is the record a handler returns
Commit(m) ==
    /\ agents' = m.agents
    /\ gateways' = m.gateways
    /\ agentGateway' = m.agentGateway
    /\ state' = m.state
    /\ sockets' = m.sockets
    /\ reqCounter' = m.reqCounter
    /\ pending' = m.pending
    /\ callTimers' = m.callTimers
    /\ reconnectTimers' = m.reconnectTimers
    /\ settleTimers' = m.settleTimers
    /\ rounds' = m.rounds
    /\ emitted' = m.emitted
    /\ written' = m.written
    /\ resolved' = m.resolved
    /\ opened' = m.opened
    /\ hostMetrics' = m.hostMetrics
    /\ hostEmitted' = m.hostEmitted
    /\ UNCHANGED <<files, returned>>

\* loadConfig() that also forgets the requests in flight
DoLoadConfigRetracts(m, cfg) ==
    LET pruned == PruneAgents(m, cfg)
        cleared == [pruned EXCEPT !.gateways = ClearGatewayAgents(pruned.gateways),
                                  !.pending = <<>>, !.callTimers = <<>>]
    IN  RemoveEmpty(AddAgents(cleared, cfg, 1), 1)
\* loadConfig() with the file holding cfg
DoLoadConfig(m, cfg) ==
    LET pruned == PruneAgents(m, cfg)
        cleared == [pruned EXCEPT !.gateways = ClearGatewayAgents(pruned.gateways)]
    IN  RemoveEmpty(AddAgents(cleared, cfg, 1), 1)

\* this.hostMetrics = {} of the constructor
NoMetrics == <<>>

InitCollector ==
    /\ config = Null
    /\ agents = <<>>
    /\ gateways = <<>>
    /\ agentGateway = <<>>
    /\ state = <<>>
    /\ sockets = <<>>
    /\ reqCounter = 0
    /\ pending = <<>>
    /\ callTimers = <<>>
    /\ reconnectTimers = <<>>
    /\ settleTimers = <<>>
    /\ rounds = <<>>
    /\ pollTimer = "null"
    /\ emitted = <<>>
    /\ written = <<>>
    /\ resolved = <<>>
    /\ opened = <<>>
    /\ turn = [type |-> "constructor"]
    /\ reloads = 0
    /\ hostMetrics = NoMetrics
    /\ hostEmitted = <<>>

Init == InitCollector /\ files = Null /\ returned = Null

-----------------------------------------------------------------------------
(* Payloads and frames of the wire protocol *)

\* every payload object has these properties; an absent one is Null
Payload(type, snapshot, agts, sess, pres) ==
    [type |-> type, snapshot |-> snapshot, agents |-> agts, sessions |-> sess,
     presence |-> pres]

Snapshot == [type |-> "snapshot"]
HelloOk == Payload("hello-ok", Some(Snapshot), Null, Null, Null)
Data ==
    Payload("data", Null,
            Some(<<[agentId |-> <<"alice">>]>>),
            Some(<<[key |-> <<"agent", "alice", "main">>],
                   [key |-> <<"agent", "bob", "main">>],
                   [key |-> <<"agent", "alice", "sub", "main">>]>>),
            Some("presence"))

EmptyObject == "{}"

\* what /proc and df report when _collectHostMetrics reads them; Null when a
\* read throws
Reading(load, used) == Some([loadAvg |-> load, memoryUsed |-> used])
HostReadings == {Null, Reading(1, 10), Reading(2, 20)}

\* the readings of Date.now(): the code only stores them
Times == {1}

\* the six RPCs of a poll round, in the order of the Promise.all array
Methods ==
    <<[method |-> "health", field |-> "health", params |-> <<>>],
      [method |-> "sessions.list", field |-> "sessions",
       params |-> <<"activeMinutes", 1440, "limit", 50>>],
      [method |-> "usage.cost", field |-> "usage", params |-> <<"days", 7>>],
      [method |-> "last-heartbeat", field |-> "heartbeat", params |-> <<>>],
      [method |-> "channels.status", field |-> "channels", params |-> <<>>],
      [method |-> "cron.list", field |-> "cron", params |-> <<>>]>>

Direct == [kind |-> "direct", round |-> 0, slot |-> 0]
RoundSlot(rid, i) == [kind |-> "round", round |-> rid, slot |-> i]

-----------------------------------------------------------------------------
(* _updateState *)

\* { ...current, ...partial }
Merge(cur, partial) ==
    [f \in DOMAIN cur \cup DOMAIN partial |->
        IF f \in DOMAIN partial THEN partial[f] ELSE cur[f]]

\* _updateState without its emit
UpdateStateSilent(m, id, partial) ==
    LET cur == IF id \in DOMAIN m.state THEN m.state[id] ELSE <<>>
        new == Merge(cur, partial)
    IN  [m EXCEPT
            !.state = [x \in DOMAIN m.state \cup {id} |->
                         IF x = id THEN new ELSE m.state[x]]]

\* lines 305-309
UpdateState(m, id, partial) ==
    LET cur == IF id \in DOMAIN m.state THEN m.state[id] ELSE <<>>
        new == Merge(cur, partial)
    IN  [m EXCEPT
            !.state = [x \in DOMAIN m.state \cup {id} |->
                         IF x = id THEN new ELSE m.state[x]],
            !.emitted = Append(m.emitted, [id |-> id, state |-> Some(new)])]

RECURSIVE UpdateEach(_, _, _, _)
\* for (const agent of gw.agents) this._updateState(agent.id, partial)
UpdateEach(m, ags, partial, i) ==
    IF i > Len(ags) THEN m
    ELSE UpdateEach(UpdateState(m, ags[i].id, partial), ags, partial, i + 1)

-----------------------------------------------------------------------------
(* _scheduleReconnect, _connect and the socket callbacks *)

HandleUsed(m, h) ==
    \/ \E i \in 1..Len(m.reconnectTimers) : m.reconnectTimers[i].h = h
    \/ \E i \in 1..Len(m.gateways) : m.gateways[i].reconnectTimer = h

\* the handle setTimeout returns: one no live or remembered timer has
FreshHandle(m) ==
    CHOOSE h \in 1..(Len(m.reconnectTimers) + Len(m.gateways) + 1) :
        /\ ~HandleUsed(m, h)
        /\ \A g \in 1..(h - 1) : HandleUsed(m, g)

\* a reconnect armed with no delay
ScheduleReconnectNoDelay(m, key) ==
    IF ~GwHas(m.gateways, key) THEN m
    ELSE LET i == GwIndex(m.gateways, key)
             cleared == [m EXCEPT !.reconnectTimers =
                            ClearReconnect(m.reconnectTimers, m.gateways[i].reconnectTimer)]
             h == FreshHandle(cleared)
         IN  [cleared EXCEPT
                !.reconnectTimers = Append(cleared.reconnectTimers,
                                            [key |-> key, h |-> h, ms |-> 0]),
                !.gateways[i].reconnectTimer = h]
\* lines 155-160
ScheduleReconnect(m, key) ==
    IF ~GwHas(m.gateways, key) THEN m
    ELSE LET i == GwIndex(m.gateways, key)
             cleared == [m EXCEPT !.reconnectTimers =
                            ClearReconnect(m.reconnectTimers, m.gateways[i].reconnectTimer)]
             h == FreshHandle(cleared)
         IN  [cleared EXCEPT
                !.reconnectTimers = Append(cleared.reconnectTimers,
                                            [key |-> key, h |-> h, ms |-> ReconnectMs]),
                !.gateways[i].reconnectTimer = h]

\* new WebSocket(url) throws a SyntaxError on a URL it cannot parse
ValidHost(h) == h # "bad host"

NewSocket(key) ==
    [key |-> key, detached |-> FALSE, readyState |-> "CONNECTING", errorDue |-> FALSE,
     receiving |-> FALSE]

Connect(m, key) ==
    IF ~GwHas(m.gateways, key) THEN m
    ELSE LET i == GwIndex(m.gateways, key)
             gw == m.gateways[i]
             closed == [m EXCEPT !.sockets = WsClose(m.sockets, gw.ws)]
             s == Len(m.sockets) + 1
         IN  IF ~ValidHost(gw.host)
             THEN ScheduleReconnect(
                    UpdateEach(closed, gw.agents,
                               [online |-> FALSE, error |-> Some(<<"Invalid URL">>)], 1),
                    key)
             ELSE [closed EXCEPT
                     !.sockets = Append(closed.sockets, NewSocket(key)),
                     !.gateways[i].ws = s,
                     !.gateways[i].state = "connecting",
                     !.opened = Append(closed.opened, s)]

\* the gateway object a socket's callbacks closed over, when it is still in the map
Attached(m, s) == ~m.sockets[s].detached /\ GwHas(m.gateways, m.sockets[s].key)

SetGwState(m, key, st) ==
    [m EXCEPT !.gateways[GwIndex(m.gateways, key)].state = st]

\* an open handler that leaves the state as _connect set it
OnOpenKeepsConnecting(m, s) == m
\* ws.on('open')
OnOpen(m, s) ==
    IF Attached(m, s) THEN SetGwState(m, m.sockets[s].key, "waiting-challenge") ELSE m

\* a close handler that arms no reconnect
OnCloseNoReconnect(m, s, code) ==
    IF Attached(m, s)
    THEN UpdateEach(SetGwState(m, m.sockets[s].key, "disconnected"),
                    GwGet(m.gateways, m.sockets[s].key).agents,
                    [online |-> FALSE,
                     error |-> Some(<<"disconnected (code ", code, ")">>)], 1)
    ELSE m
\* a close handler that leaves the agent records alone
OnCloseKeepsRecords(m, s, code) ==
    LET key == m.sockets[s].key
    IN  ScheduleReconnect(IF Attached(m, s) THEN SetGwState(m, key, "disconnected") ELSE m,
                          key)
\* ws.on('close'): a detached gateway object has no agents left
OnClose(m, s, code) ==
    LET key == m.sockets[s].key
        marked ==
            IF Attached(m, s)
            THEN UpdateEach(SetGwState(m, key, "disconnected"),
                            GwGet(m.gateways, key).agents,
                            [online |-> FALSE,
                             error |-> Some(<<"disconnected (code ", code, ")">>)], 1)
            ELSE m
    IN  ScheduleReconnect(marked, key)

\* an error handler that also arms the reconnect, as the close handler does
OnErrorReconnects(m, s, message) ==
    ScheduleReconnect(
        IF Attached(m, s)
        THEN UpdateEach(SetGwState(m, m.sockets[s].key, "error"),
                        GwGet(m.gateways, m.sockets[s].key).agents,
                        [online |-> FALSE, error |-> Some(message)], 1)
        ELSE m,
        m.sockets[s].key)
\* ws.on('error')
OnError(m, s, message) ==
    IF Attached(m, s)
    THEN UpdateEach(SetGwState(m, m.sockets[s].key, "error"),
                    GwGet(m.gateways, m.sockets[s].key).agents,
                    [online |-> FALSE, error |-> Some(message)], 1)
    ELSE m

-----------------------------------------------------------------------------
(* _sendFrame, _call and the poll round *)

SocketOpenFor(m, key) ==
    /\ GwHas(m.gateways, key)
    /\ GwGet(m.gateways, key).ws # 0
    /\ m.sockets[GwGet(m.gateways, key).ws].readyState = "OPEN"

SendFrame(m, key, frame) ==
    IF ~SocketOpenFor(m, key) THEN m
    ELSE [m EXCEPT !.written =
            Append(m.written, [sock |-> GwGet(m.gateways, key).ws, frame |-> frame])]

\* agent.gatewayAgentId || agent.id, as its ':'-separated segments; an id
\* has no ':' (createAgent strips it), a gatewayAgentId is any string
AgentKey(agent) ==
    IF agent.gatewayAgentId # Null THEN agent.gatewayAgentId[1] ELSE <<agent.id>>

IsPrefix(p, s) == Len(p) <= Len(s) /\ SubSeq(s, 1, Len(p)) = p

\* key.startsWith(`agent:${agentKey}:`), keys being their ':'-separated segments
HasAgentPrefix(key, agentKey) ==
    IsPrefix(<<"agent">> \o agentKey, key) /\ Len(key) > Len(agentKey) + 1

With(rec, field, v) ==
    [f \in DOMAIN rec \cup {field} |-> IF f = field THEN v ELSE rec[f]]

\* the partial update with a property for every call, a null result included
AgentUpdateWritesNull(gw, agent, r, t) ==
    LET agentKey == AgentKey(agent)
    IN  [f \in {"lastSeen"} \cup {Methods[i].field : i \in 1..Len(Methods)} |->
            CASE f = "lastSeen" -> Some(t)
              [] f = "sessions" /\ r[f] # Null /\ r[f][1].sessions # Null ->
                    Some([r[f][1] EXCEPT !.sessions =
                            Some(FilterSeq(r[f][1].sessions[1],
                                           LAMBDA x : HasAgentPrefix(x.key, agentKey)))])
              [] f = "usage" /\ r[f] # Null ->
                    Some(With(r.usage[1], "shared", Len(gw.agents) > 1))
              [] OTHER -> r[f]]

\* the partial update with the sessions.list result left unfiltered
AgentUpdateUnfiltered(gw, agent, r, t) ==
    LET fields == {"lastSeen"}
                  \cup {Methods[i].field : i \in {j \in 1..Len(Methods) :
                                                    r[Methods[j].field] # Null}}
    IN  [f \in fields |->
            CASE f = "lastSeen" -> Some(t)
              [] f = "usage" -> Some(With(r.usage[1], "shared", Len(gw.agents) > 1))
              [] OTHER -> r[f]]

\* the update that takes the results of a round as a sign that the agent is up
AgentUpdateRevives(gw, agent, r, t) ==
    LET agentKey == AgentKey(agent)
        health ==
            LET h == r.health[1]
                hit == IF h.agents = Null THEN <<>>
                       ELSE FilterSeq(h.agents[1], LAMBDA a : a.agentId = agentKey)
            IN  IF Len(hit) > 0 THEN With(h, "_agentHealth", hit[1]) ELSE h
        sessions ==
            LET p == r.sessions[1]
            IN  IF p.sessions # Null
                THEN [p EXCEPT !.sessions =
                        Some(FilterSeq(p.sessions[1],
                                       LAMBDA x : HasAgentPrefix(x.key, agentKey)))]
                ELSE p
        fields == {"lastSeen", "online", "error"}
                  \cup {Methods[i].field : i \in {j \in 1..Len(Methods) :
                                                    r[Methods[j].field] # Null}}
    IN  [f \in fields |->
            CASE f = "lastSeen" -> Some(t)
              [] f = "online" -> TRUE
              [] f = "error" -> Null
              [] f = "health" -> Some(health)
              [] f = "sessions" -> Some(sessions)
              [] f = "usage" -> Some(With(r.usage[1], "shared", Len(gw.agents) > 1))
              [] OTHER -> r[f]]

\* the update that tags the cron result with the agent it is stored for
AgentUpdateOwnCron(gw, agent, r, t) ==
    LET agentKey == AgentKey(agent)
        health ==
            LET h == r.health[1]
                hit == IF h.agents = Null THEN <<>>
                       ELSE FilterSeq(h.agents[1], LAMBDA a : a.agentId = agentKey)
            IN  IF Len(hit) > 0 THEN With(h, "_agentHealth", hit[1]) ELSE h
        sessions ==
            LET p == r.sessions[1]
            IN  IF p.sessions # Null
                THEN [p EXCEPT !.sessions =
                        Some(FilterSeq(p.sessions[1],
                                       LAMBDA x : HasAgentPrefix(x.key, agentKey)))]
                ELSE p
        fields == {"lastSeen"}
                  \cup {Methods[i].field : i \in {j \in 1..Len(Methods) :
                                                    r[Methods[j].field] # Null}}
    IN  [f \in fields |->
            CASE f = "lastSeen" -> Some(t)
              [] f = "health" -> Some(health)
              [] f = "sessions" -> Some(sessions)
              [] f = "usage" -> Some(With(r.usage[1], "shared", Len(gw.agents) > 1))
              [] f = "cron" -> Some(With(r.cron[1], "agentId", agentKey))
              [] OTHER -> r[f]]

\* the update that marks every usage as shared
AgentUpdateAlwaysShared(gw, agent, r, t) ==
    LET agentKey == AgentKey(agent)
        health ==
            LET h == r.health[1]
                hit == IF h.agents = Null THEN <<>>
                       ELSE FilterSeq(h.agents[1], LAMBDA a : a.agentId = agentKey)
            IN  IF Len(hit) > 0 THEN With(h, "_agentHealth", hit[1]) ELSE h
        sessions ==
            LET p == r.sessions[1]
            IN  IF p.sessions # Null
                THEN [p EXCEPT !.sessions =
                        Some(FilterSeq(p.sessions[1],
                                       LAMBDA x : HasAgentPrefix(x.key, agentKey)))]
                ELSE p
        fields == {"lastSeen"}
                  \cup {Methods[i].field : i \in {j \in 1..Len(Methods) :
                                                    r[Methods[j].field] # Null}}
    IN  [f \in fields |->
            CASE f = "lastSeen" -> Some(t)
              [] f = "health" -> Some(health)
              [] f = "sessions" -> Some(sessions)
              [] f = "usage" -> Some(With(r.usage[1], "shared", TRUE))
              [] OTHER -> r[f]]

\* lines 255-297: the partial update of one agent from a round's results
AgentUpdate(gw, agent, r, t) ==
    LET agentKey == AgentKey(agent)
        health ==
            LET h == r.health[1]
                hit == IF h.agents = Null THEN <<>>
                       ELSE FilterSeq(h.agents[1], LAMBDA a : a.agentId = agentKey)
            IN  IF Len(hit) > 0 THEN With(h, "_agentHealth", hit[1]) ELSE h
        sessions ==
            LET p == r.sessions[1]
            IN  IF p.sessions # Null
                THEN [p EXCEPT !.sessions =
                        Some(FilterSeq(p.sessions[1],
                                       LAMBDA x : HasAgentPrefix(x.key, agentKey)))]
                ELSE p
        fields == {"lastSeen"}
                  \cup {Methods[i].field : i \in {j \in 1..Len(Methods) :
                                                    r[Methods[j].field] # Null}}
    IN  [f \in fields |->
            CASE f = "lastSeen" -> Some(t)
              [] f = "health" -> Some(health)
              [] f = "sessions" -> Some(sessions)
              [] f = "usage" -> Some(With(r.usage[1], "shared", Len(gw.agents) > 1))
              [] OTHER -> r[f]]

\* the split of a round's results that serves the first agent only
ApplyFirstOnly(m, gw, r, t, i) ==
    IF i > Len(gw.agents) THEN m
    ELSE UpdateState(m, gw.agents[i].id, AgentUpdate(gw, gw.agents[i], r, t))

RECURSIVE ApplyEach(_, _, _, _, _)
ApplyEach(m, gw, r, t, i) ==
    IF i > Len(gw.agents) THEN m
    ELSE ApplyEach(UpdateState(m, gw.agents[i].id, AgentUpdate(gw, gw.agents[i], r, t)),
                   gw, r, t, i + 1)

\* lines 250-300: the continuation of _pollGateway after its await
PollApply(m, rid, t) ==
    LET round == m.rounds[rid]
        r == [f \in {Methods[i].field : i \in 1..Len(Methods)} |->
                round.results[CHOOSE i \in 1..Len(Methods) : Methods[i].field = f].value]
        dropped == [m EXCEPT !.rounds = Restrict(m.rounds, DOMAIN m.rounds \ {rid})]
    IN  IF round.detached \/ ~GwHas(m.gateways, round.key) THEN dropped
        ELSE LET i == GwIndex(m.gateways, round.key)
                 stored == [dropped EXCEPT !.gateways[i].rawData = Some(r)]
             IN  ApplyEach(stored, stored.gateways[i], r, t, 1)

\* resolve(value) of the promise a _call returned
Resolve(m, target, value, req, t) ==
    LET noted == [m EXCEPT !.resolved =
                     Append(m.resolved, [req |-> req, target |-> target, value |-> value])]
    IN  IF target.kind # "round" \/ target.round \notin DOMAIN m.rounds THEN noted
        ELSE IF m.rounds[target.round].results[target.slot].done THEN noted
        ELSE LET set == [noted EXCEPT
                           !.rounds[target.round].results[target.slot] =
                               [done |-> TRUE, value |-> value]]
             IN  IF \A i \in 1..Len(Methods) : set.rounds[target.round].results[i].done
                 THEN PollApply(set, target.round, t)
                 ELSE set

ReqFrame(id, method, params) ==
    [type |-> "req", id |-> id, method |-> method, params |-> params]

Extend(f, x, v) == [y \in DOMAIN f \cup {x} |-> IF y = x THEN v ELSE f[y]]

\* _call without the test of gw.state
CallIgnoresState(m, key, method, params, target, t) ==
    IF ~SocketOpenFor(m, key)
    THEN Resolve(m, target, Null, 0, t)
    ELSE LET id == m.reqCounter + 1
             sent == SendFrame([m EXCEPT !.reqCounter = id], key,
                               ReqFrame(id, method, params))
         IN  [sent EXCEPT
                !.callTimers = Append(sent.callTimers,
                                     [id |-> id, target |-> target, batch |-> target.round,
                                      ms |-> CallTimeoutMs]),
                !.pending = Extend(sent.pending, id, [target |-> target])]
\* _call that reads the counter without advancing it
CallReusesId(m, key, method, params, target, t) ==
    IF ~SocketOpenFor(m, key) \/ GwGet(m.gateways, key).state # "connected"
    THEN Resolve(m, target, Null, 0, t)
    ELSE LET id == m.reqCounter + 1
             sent == SendFrame(m, key, ReqFrame(id, method, params))
         IN  [sent EXCEPT
                !.callTimers = Append(sent.callTimers,
                                     [id |-> id, target |-> target, batch |-> target.round,
                                      ms |-> CallTimeoutMs]),
                !.pending = Extend(sent.pending, id, [target |-> target])]
\* lines 168-179
Call(m, key, method, params, target, t) ==
    IF ~SocketOpenFor(m, key) \/ GwGet(m.gateways, key).state # "connected"
    THEN Resolve(m, target, Null, 0, t)
    ELSE LET id == m.reqCounter + 1
             sent == SendFrame([m EXCEPT !.reqCounter = id], key,
                               ReqFrame(id, method, params))
         IN  [sent EXCEPT
                !.callTimers = Append(sent.callTimers,
                                     [id |-> id, target |-> target, batch |-> target.round,
                                      ms |-> CallTimeoutMs]),
                !.pending = Extend(sent.pending, id, [target |-> target])]

RECURSIVE CallEach(_, _, _, _, _)
CallEach(m, key, rid, t, i) ==
    IF i > Len(Methods) THEN m
    ELSE CallEach(Call(m, key, Methods[i].method, Methods[i].params, RoundSlot(rid, i), t),
                  key, rid, t, i + 1)

\* _pollGateway that waits while a round of the link is unfinished
PollGatewayBackpressure(m, key, t) ==
    IF \/ ~GwHas(m.gateways, key)
       \/ GwGet(m.gateways, key).state # "connected"
       \/ \E r \in DOMAIN m.rounds : m.rounds[r].key = key
    THEN m
    ELSE LET rid == m.reqCounter + 1
             round == [key |-> key, detached |-> FALSE,
                       results |-> [i \in 1..Len(Methods) |->
                                      [done |-> FALSE, value |-> Null]]]
         IN  CallEach([m EXCEPT !.rounds = Extend(m.rounds, rid, round)], key, rid, t, 1)

\* lines 237-248: _pollGateway up to its await
PollGateway(m, key, t) ==
    IF ~GwHas(m.gateways, key) \/ GwGet(m.gateways, key).state # "connected" THEN m
    ELSE LET rid == m.reqCounter + 1
             round == [key |-> key, detached |-> FALSE,
                       results |-> [i \in 1..Len(Methods) |->
                                      [done |-> FALSE, value |-> Null]]]
         IN  CallEach([m EXCEPT !.rounds = Extend(m.rounds, rid, round)], key, rid, t, 1)

RECURSIVE PollEach(_, _, _, _)
\* _pollAll: the keys are those the map holds when the loop starts
PollEach(m, keys, t, i) ==
    IF i > Len(keys) THEN m
    ELSE PollEach(PollGateway(m, keys[i], t), keys, t, i + 1)

-----------------------------------------------------------------------------
(* _handleMessage; an exception ends the handler with what it did so far *)

CancelTimer(ts, id) == FilterSeq(ts, LAMBDA x : x.id # id)

\* an event handler that counts the challenge and answers nothing
HandleEventNoConnect(m, key, msg, t) ==
    IF msg.event = "connect.challenge" THEN [m EXCEPT !.reqCounter = m.reqCounter + 1]
    ELSE m
\* an event handler that takes a health event as a sign of life
HandleEventRevives(m, key, msg, t) ==
    LET has == GwHas(m.gateways, key)
        ags == GwGet(m.gateways, key).agents
    IN  CASE msg.event = "connect.challenge" ->
               LET id == m.reqCounter + 1
                   counted == [m EXCEPT !.reqCounter = id]
               IN  IF ~has THEN counted
                   ELSE SendFrame(counted, key,
                          ReqFrame(id, "connect",
                                   [minProtocol |-> 3, maxProtocol |-> 3,
                                    token |-> GwGet(m.gateways, key).token]))
          [] msg.event = "health" ->
               IF ~has THEN m
               ELSE UpdateEach(m, ags, [health |-> msg.payload, lastSeen |-> Some(t),
                                        online |-> TRUE], 1)
          [] msg.event = "presence" ->
               IF ~has THEN m
               ELSE UpdateEach(m, ags,
                      [presence |-> IF msg.payload = Null THEN Null
                                    ELSE msg.payload[1].presence,
                       lastSeen |-> Some(t)], 1)
          [] msg.event = "tick" ->
               IF ~has THEN m ELSE UpdateEach(m, ags, [lastSeen |-> Some(t)], 1)
          [] OTHER -> m
\* lines 184-204
HandleEvent(m, key, msg, t) ==
    LET has == GwHas(m.gateways, key)
        ags == GwGet(m.gateways, key).agents
    IN  CASE msg.event = "connect.challenge" ->
               LET id == m.reqCounter + 1
                   counted == [m EXCEPT !.reqCounter = id]
               IN  IF ~has THEN counted
                   ELSE SendFrame(counted, key,
                          ReqFrame(id, "connect",
                                   [minProtocol |-> 3, maxProtocol |-> 3,
                                    token |-> GwGet(m.gateways, key).token]))
          [] msg.event = "health" ->
               IF ~has THEN m
               ELSE UpdateEach(m, ags, [health |-> msg.payload, lastSeen |-> Some(t)], 1)
          [] msg.event = "presence" ->
               IF ~has THEN m
               ELSE UpdateEach(m, ags,
                      [presence |-> IF msg.payload = Null THEN Null
                                    ELSE msg.payload[1].presence,
                       lastSeen |-> Some(t)], 1)
          [] msg.event = "tick" ->
               IF ~has THEN m ELSE UpdateEach(m, ags, [lastSeen |-> Some(t)], 1)
          [] OTHER -> m

IsHelloOk(msg) == msg.ok /\ msg.payload # Null /\ msg.payload[1].type = "hello-ok"

\* the hello-ok branch without its setTimeout
HandleHelloNoFirstPoll(m, key, msg, t) ==
    IF ~GwHas(m.gateways, key) THEN m
    ELSE UpdateEach(SetGwState(m, key, "connected"), GwGet(m.gateways, key).agents,
                    [online |-> TRUE, error |-> Null, lastSeen |-> Some(t),
                     health |-> msg.payload[1].snapshot], 1)
\* lines 207-215
HandleHello(m, key, msg, t) ==
    IF ~GwHas(m.gateways, key) THEN m
    ELSE LET snap == IF msg.payload[1].snapshot # Null THEN msg.payload[1].snapshot
                     ELSE Some(EmptyObject)
             up == UpdateEach(SetGwState(m, key, "connected"),
                              GwGet(m.gateways, key).agents,
                              [online |-> TRUE, error |-> Null, lastSeen |-> Some(t),
                               health |-> snap], 1)
         IN  [up EXCEPT !.settleTimers =
                           Append(up.settleTimers, [key |-> key, ms |-> SettleMs])]

\* a rejection that marks only the first agent of the link
HandleRejectedFirstAgent(m, key, msg) ==
    IF ~GwHas(m.gateways, key) THEN m
    ELSE UpdateEach(m, SubSeq(GwGet(m.gateways, key).agents, 1, 1),
                    [online |-> FALSE, error |-> Some(msg.error[1].message)], 1)
\* lines 216-220
HandleRejected(m, key, msg) ==
    IF ~GwHas(m.gateways, key) THEN m
    ELSE UpdateEach(m, GwGet(m.gateways, key).agents,
                    [online |-> FALSE, error |-> Some(msg.error[1].message)], 1)

\* lines 221-227
HandlePending(m, msg, t) ==
    IF msg.id \notin DOMAIN m.pending THEN m
    ELSE Resolve([m EXCEPT
                    !.callTimers = CancelTimer(m.callTimers, msg.id),
                    !.pending = Restrict(m.pending, DOMAIN m.pending \ {msg.id})],
                 m.pending[msg.id].target,
                 IF msg.ok THEN msg.payload ELSE Null, msg.id, t)

\* a handler that takes every response as a sign of life
HandleResTouchesLastSeen(m, key, msg, t) ==
    IF ~GwHas(m.gateways, key) THEN m
    ELSE UpdateEach(m, GwGet(m.gateways, key).agents, [lastSeen |-> Some(t)], 1)
\* lines 206-228
HandleRes(m, key, msg, t) ==
    IF IsHelloOk(msg) THEN HandleHello(m, key, msg, t)
    ELSE IF ~msg.ok /\ msg.error # Null THEN HandleRejected(m, key, msg)
    ELSE HandlePending(m, msg, t)

\* a message callback that gives the link up on data it cannot parse
HandleMessageStrict(m, key, msg, t) ==
    IF msg = Null
    THEN IF GwHas(m.gateways, key) THEN SetGwState(m, key, "error") ELSE m
    ELSE IF msg[1].type = "event" THEN HandleEvent(m, key, msg[1], t)
    ELSE IF msg[1].type = "res" THEN HandleRes(m, key, msg[1], t)
    ELSE m
\* lines 139-141 and 181-229; data that JSON.parse rejects is Null
HandleMessage(m, key, msg, t) ==
    IF msg = Null THEN m
    ELSE IF msg[1].type = "event" THEN HandleEvent(m, key, msg[1], t)
    ELSE IF msg[1].type = "res" THEN HandleRes(m, key, msg[1], t)
    ELSE m

\* a timer callback without this._pending.delete(reqId)
OnCallTimeoutKeepsEntry(m, timer, t) ==
    Resolve([m EXCEPT !.callTimers = CancelTimer(m.callTimers, timer.id)],
            timer.target, Null, timer.id, t)
\* line 176: () => { this._pending.delete(reqId); resolve(null); }
OnCallTimeout(m, timer, t) ==
    Resolve([m EXCEPT
                !.callTimers = CancelTimer(m.callTimers, timer.id),
                !.pending = Restrict(m.pending, DOMAIN m.pending \ {timer.id})],
            timer.target, Null, timer.id, t)

RECURSIVE ConnectEach(_, _, _)
\* line 99: for (const [key] of this.gateways) this._connect(key)
ConnectEach(m, keys, i) ==
    IF i > Len(keys) THEN m ELSE ConnectEach(Connect(m, keys[i]), keys, i + 1)

Keys(gws) == [i \in 1..Len(gws) |-> gws[i].key]

RECURSIVE StopEach(_, _)
\* lines 108-111
StopEach(m, i) ==
    IF i > Len(m.gateways) THEN m
    ELSE StopEach([m EXCEPT
                     !.reconnectTimers =
                         ClearReconnect(m.reconnectTimers, m.gateways[i].reconnectTimer),
                     !.sockets = WsClose(m.sockets, m.gateways[i].ws)],
                  i + 1)

-----------------------------------------------------------------------------
(* Spec: the collector after start(), its sockets, timers and callers *)

RunAgentCfgs ==
    {AgentCfg("alice", "127.0.0.1", 18789, TokA),
     AgentCfg("bob", "127.0.0.1", 18789, TokA),
     AgentCfg("bob", "127.0.0.1", 18790, TokA)}

\* agents.json when start() reads it, and when the server reloads it
Shared == <<AgentCfg("alice", "127.0.0.1", 18789, TokA),
            AgentCfg("bob", "127.0.0.1", 18789, TokA)>>
Solo == <<AgentCfg("alice", "127.0.0.1", 18789, TokA)>>
StartConfigs == {Shared, Solo}
RunConfigs == ConfigsOver(RunAgentCfgs)

CloseCodes == {1006}

Denied == Some([message |-> <<"denied">>])

Res(id, ok, payload, error) ==
    [type |-> "res", id |-> id, ok |-> ok, payload |-> payload, error |-> error]

Event(ev, payload) == [type |-> "event", event |-> ev, payload |-> payload]

\* an id no pending entry has: every such id takes the same path through the handler
UnknownId == CHOOSE i \in 1..(MaxPollReq + 1) : i \notin DOMAIN pending

\* the ids a response can carry: those of the pending requests, and one other
ResIds == DOMAIN pending \cup {UnknownId}

\* every shape of response
ResFrames ==
    {Res(i, o, p, e) : i \in ResIds, o \in BOOLEAN,
                       p \in {Null, Some(HelloOk), Some(Data)}, e \in {Null, Denied}}

\* the frames of the handshake and of a gateway that answers its requests in
\* the order of their ids, plus a frame of an unknown type and unparseable data
OldestPending == {i \in DOMAIN pending : \A j \in DOMAIN pending : i <= j}

LifecycleFrames ==
    {Some(Event("connect.challenge", Null)), Some(Event("tick", Null)),
     Some(Res(UnknownId, TRUE, Some(HelloOk), Null)),
     Some(Res(UnknownId, FALSE, Null, Denied)),
     Some([type |-> "pong"]), Null}
    \cup {Some(Res(i, TRUE, Some(Data), Null)) : i \in OldestPending}

\* lines 313-338: _collectHostMetrics with the host reporting reading
CollectHostMetrics(m, reading, t) ==
    IF reading = Null THEN m
    ELSE LET metrics == With(reading[1], "ts", t)
         IN  [m EXCEPT !.hostMetrics = metrics,
                       !.hostEmitted = Append(m.hostEmitted, metrics)]

\* start() with the file holding cfg and the host reporting reading
StartWith(cfg, reading, t) ==
    /\ pollTimer = "null"
    /\ LET loaded == DoLoadConfig(Mem, cfg)
       IN  /\ Len(sockets) + Len(loaded.gateways) <= MaxSockets
           /\ Commit(CollectHostMetrics(
                        ConnectEach(loaded, Keys(loaded.gateways), 1), reading, t))
    /\ config' = Some(cfg)
    /\ pollTimer' = "armed"
    /\ turn' = [type |-> "start"]
    /\ UNCHANGED reloads

Start(cfg) == StartWith(cfg, Reading(1, 10), CHOOSE t \in Times : TRUE)

\* the metrics interval fires: _collectHostMetrics(); start() arms it with the
\* poll interval and stop() clears both
MetricsTick(reading, t) ==
    /\ pollTimer = "armed"
    /\ Commit(CollectHostMetrics(Mem, reading, t))
    /\ turn' = [type |-> "metrics"]
    /\ UNCHANGED <<config, pollTimer, reloads>>

\* loadConfig() called by the server after start(), the file holding cfg
Reload(cfg) ==
    /\ pollTimer # "null"
    /\ reloads < MaxReloads
    /\ reloads' = reloads + 1
    /\ Commit(DoLoadConfig(Mem, cfg))
    /\ config' = Some(cfg)
    /\ turn' = [type |-> "loadConfig"]
    /\ UNCHANGED pollTimer

\* the socket's 'open' event
SocketOpen(s) ==
    /\ sockets[s].readyState = "CONNECTING"
    /\ Commit(OnOpen([Mem EXCEPT !.sockets[s].readyState = "OPEN",
                                 !.sockets[s].receiving = TRUE], s))
    /\ turn' = [type |-> "open", sock |-> s]
    /\ UNCHANGED <<config, pollTimer, reloads>>

\* the socket's 'error' event: a failure of the connection, or the abort of a
\* handshake by close(); the socket's 'close' event follows
SocketError(s) ==
    /\ \/ sockets[s].readyState \in {"CONNECTING", "OPEN"}
       \/ sockets[s].errorDue
    /\ Commit(OnError([Mem EXCEPT !.sockets[s].readyState = "CLOSING",
                                  !.sockets[s].errorDue = FALSE,
                                  !.sockets[s].receiving = FALSE],
                      s, <<"socket error">>))
    /\ turn' = [type |-> "error", sock |-> s]
    /\ UNCHANGED <<config, pollTimer, reloads>>

\* the closing handshake starts on an open socket: readyState is CLOSING from
\* here on, no frame arrives any more, and the 'close' event is still to come
SocketClosing(s) ==
    /\ sockets[s].readyState = "OPEN"
    /\ Commit([Mem EXCEPT !.sockets[s].readyState = "CLOSING",
                          !.sockets[s].receiving = FALSE])
    /\ turn' = [type |-> "closing", sock |-> s]
    /\ UNCHANGED <<config, pollTimer, reloads>>

\* the socket's 'close' event
SocketClose(s, code) ==
    /\ sockets[s].readyState \in {"OPEN", "CLOSING"}
    /\ ~sockets[s].errorDue
    /\ Commit(OnClose([Mem EXCEPT !.sockets[s].readyState = "CLOSED",
                                  !.sockets[s].receiving = FALSE],
                      s, code))
    /\ turn' = [type |-> "close", sock |-> s, code |-> code]
    /\ UNCHANGED <<config, pollTimer, reloads>>

\* the socket's 'message' event
SocketMessage(s, msg, t) ==
    /\ sockets[s].receiving
    /\ msg # Null /\ msg[1].type = "event" /\ msg[1].event = "connect.challenge"
          => reqCounter < MaxReq
    /\ msg # Null /\ msg[1].type = "res" /\ IsHelloOk(msg[1])
          => Len(settleTimers) < MaxSettle
    /\ Commit(HandleMessage(Mem, sockets[s].key, msg, t))
    /\ turn' = [type |-> "message", sock |-> s, msg |-> msg,
                known |-> msg # Null /\ msg[1].type = "res" /\ msg[1].id \in DOMAIN pending]
    /\ UNCHANGED <<config, pollTimer, reloads>>

RECURSIVE FireBatch(_, _, _)
\* timers armed in the same turn expire together and run back to back
FireBatch(m, batch, t) ==
    IF Len(m.callTimers) = 0 \/ batch = 0 \/ m.callTimers[1].batch # batch THEN m
    ELSE FireBatch(OnCallTimeout(m, m.callTimers[1], t), batch, t)

\* the oldest request timer fires
CallTimerFires(t) ==
    /\ Len(callTimers) > 0
    /\ Commit(FireBatch(OnCallTimeout(Mem, callTimers[1], t), callTimers[1].batch, t))
    /\ turn' = [type |-> "callTimeout", id |-> callTimers[1].id]
    /\ UNCHANGED <<config, pollTimer, reloads>>

\* the oldest reconnect timer fires: () => this._connect(gwKey)
ReconnectTimerFires ==
    /\ Len(reconnectTimers) > 0
    /\ Len(sockets) < MaxSockets
    /\ Commit(Connect([Mem EXCEPT !.reconnectTimers = Tail(reconnectTimers)],
                      reconnectTimers[1].key))
    /\ turn' = [type |-> "reconnect", key |-> reconnectTimers[1].key]
    /\ UNCHANGED <<config, pollTimer, reloads>>

\* the gateways whose _call would issue a request now
Issuing == {i \in 1..Len(gateways) :
              SocketOpenFor(Mem, gateways[i].key) /\ gateways[i].state = "connected"}

\* the oldest first-poll timer fires: () => this._pollGateway(gwKey); the
\* request counter stays within cap
SettleTimerFiresUpTo(cap, t) ==
    /\ Len(settleTimers) > 0
    /\ (\E i \in Issuing : gateways[i].key = settleTimers[1].key)
          => reqCounter + Len(Methods) <= cap
    /\ Commit(PollGateway([Mem EXCEPT !.settleTimers = Tail(settleTimers)],
                          settleTimers[1].key, t))
    /\ turn' = [type |-> "firstPoll", key |-> settleTimers[1].key]
    /\ UNCHANGED <<config, pollTimer, reloads>>

SettleTimerFires(t) == SettleTimerFiresUpTo(MaxReq, t)

\* the poll interval fires: _pollAll(); the request counter stays within cap
PollTickUpTo(cap, t) ==
    /\ pollTimer = "armed"
    /\ reqCounter + Len(Methods) * Cardinality(Issuing) <= cap
    /\ Commit(PollEach(Mem, Keys(gateways), t, 1))
    /\ turn' = [type |-> "pollAll"]
    /\ UNCHANGED <<config, pollTimer, reloads>>

PollTick(t) == PollTickUpTo(MaxReq, t)

\* send(method, params) by a caller of the link's contract
DirectCall(key, i, t) ==
    /\ reqCounter < MaxReq
    /\ Cardinality(DOMAIN pending) < MaxPending
    /\ Commit(Call(Mem, key, Methods[i].method, Methods[i].params, Direct, t))
    /\ turn' = [type |-> "call", key |-> key]
    /\ UNCHANGED <<config, pollTimer, reloads>>

\* getSnapshot that stamps the metrics it returns
GetSnapshotStamps(m, t) ==
    LET stamped == [m EXCEPT !.hostMetrics = With(m.hostMetrics, "ts", t)]
    IN  [mem |-> stamped,
         result |-> [ts |-> t, agents |-> stamped.state, host |-> stamped.hostMetrics]]

\* lines 114-116: the collector after the call, and the object returned
GetSnapshot(m, t) ==
    [mem |-> m, result |-> [ts |-> t, agents |-> m.state, host |-> m.hostMetrics]]

\* a caller reads the snapshot at time t
GetSnapshotCall(t) ==
    /\ Commit(GetSnapshot(Mem, t).mem)
    /\ turn' = [type |-> "getSnapshot", result |-> GetSnapshot(Mem, t).result,
                again |-> turn.type = "getSnapshot"]
    /\ UNCHANGED <<config, pollTimer, reloads>>

\* stop()
Stop ==
    /\ pollTimer = "armed"
    /\ Commit(StopEach(Mem, 1))
    /\ pollTimer' = "cleared"
    /\ turn' = [type |-> "stop"]
    /\ UNCHANGED <<config, reloads>>

AllKeys == {GwKey(a) : a \in RunAgentCfgs}

Next ==
    \/ \E cfg \in StartConfigs : Start(cfg)
    \/ \E cfg \in RunConfigs : Reload(cfg)
    \/ \E s \in DOMAIN sockets : SocketOpen(s)
    \/ \E s \in DOMAIN sockets : SocketError(s)
    \/ \E s \in DOMAIN sockets, code \in CloseCodes : SocketClose(s, code)
    \/ \E s \in DOMAIN sockets, msg \in LifecycleFrames, t \in Times :
            SocketMessage(s, msg, t)
    \/ \E t \in Times : CallTimerFires(t)
    \/ ReconnectTimerFires
    \/ \E t \in Times : SettleTimerFires(t)
    \/ \E t \in Times : PollTick(t)

Spec == Init /\ [][Next]_vars

-----------------------------------------------------------------------------
(* SpecRpc: requests made through send() on a link two agents share, answered *)
(* in any order by responses of every shape, timed out, or outlived by the    *)
(* link; the poll timers do not fire in these behaviours                      *)

RpcFrames ==
    {Some(f) : f \in ResFrames} \cup {Some(Event("connect.challenge", Null))}

RpcReloads ==
    {<<AgentCfg("alice", "127.0.0.1", 18789, TokA)>>,
     <<AgentCfg("bob", "127.0.0.1", 18790, TokA)>>}

NextRpc ==
    \/ Start(Shared)
    \/ \E cfg \in RpcReloads : Reload(cfg)
    \/ \E s \in DOMAIN sockets : SocketOpen(s)
    \/ \E s \in DOMAIN sockets : SocketError(s)
    \/ \E s \in DOMAIN sockets, code \in CloseCodes : SocketClose(s, code)
    \/ \E s \in DOMAIN sockets, msg \in RpcFrames, t \in Times : SocketMessage(s, msg, t)
    \/ \E t \in Times : CallTimerFires(t)
    \/ ReconnectTimerFires
    \/ \E key \in AllKeys, i \in {1}, t \in Times : DirectCall(key, i, t)

SpecRpc == Init /\ [][NextRpc]_vars

-----------------------------------------------------------------------------
(* SpecRpcLive: the requests of SpecRpc, each answered with a result, answered *)
(* with an error or left unanswered, on a link that may drop; a request timer  *)
(* that is due fires                                                           *)

LiveFrames ==
    {Some(Res(UnknownId, TRUE, Some(HelloOk), Null))}
    \cup {Some(Res(i, TRUE, Some(Data), Null)) : i \in DOMAIN pending}
    \cup {Some(Res(i, FALSE, Null, Denied)) : i \in DOMAIN pending}

NextRpcLive ==
    \/ Start(Shared)
    \/ \E cfg \in RpcReloads : Reload(cfg)
    \/ \E s \in DOMAIN sockets : SocketOpen(s)
    \/ \E s \in DOMAIN sockets : SocketError(s)
    \/ \E s \in DOMAIN sockets, code \in CloseCodes : SocketClose(s, code)
    \/ \E s \in DOMAIN sockets, msg \in LiveFrames, t \in Times : SocketMessage(s, msg, t)
    \/ \E t \in Times : CallTimerFires(t)
    \/ ReconnectTimerFires
    \/ \E key \in AllKeys, i \in {1}, t \in Times : DirectCall(key, i, t)

SpecRpcLive ==
    Init /\ [][NextRpcLive]_vars /\ WF_vars(\E t \in Times : CallTimerFires(t))

-----------------------------------------------------------------------------
(* SpecDrop: links that connect, drop by an error or a close, and reconnect,  *)
(* under reloads; the close event that follows an error event is delivered,   *)
(* and a reconnect timer that is due fires                                    *)
(* (the delivery is stated as a leads-to: every socket that is closing gets   *)
(* its close event)                                                           *)

DropFrames ==
    {Some(Event("connect.challenge", Null)), Some(Event("tick", Null)),
     Some(Res(UnknownId, TRUE, Some(HelloOk), Null))}

\* socket s is closing and its 'close' event is still to come
CloseDueOn(s) ==
    s \in DOMAIN sockets /\ sockets[s].readyState = "CLOSING" /\ ~sockets[s].errorDue

NextDrop ==
    \/ \E cfg \in StartConfigs : Start(cfg)
    \/ \E cfg \in RpcReloads : Reload(cfg)
    \/ \E s \in DOMAIN sockets : SocketOpen(s)
    \/ \E s \in DOMAIN sockets : SocketError(s)
    \/ \E s \in DOMAIN sockets, code \in CloseCodes : SocketClose(s, code)
    \/ \E s \in DOMAIN sockets, msg \in DropFrames, t \in Times : SocketMessage(s, msg, t)
    \/ \E t \in Times : SettleTimerFires(t)
    \/ ReconnectTimerFires

SpecDrop ==
    /\ Init /\ [][NextDrop]_vars
    /\ WF_vars(ReconnectTimerFires)
    /\ \A s \in 1..MaxSockets : CloseDueOn(s) ~> ~CloseDueOn(s)

-----------------------------------------------------------------------------
(* SpecPoll: two poll rounds on a link two agents share; the gateway answers  *)
(* the requests in the order of their ids, each with a result or with a       *)
(* failure, or leaves them to their timers; ticks arrive in between           *)

\* bob is the gateway's agent "alice:sub"
Nested ==
    <<AgentCfg("alice", "127.0.0.1", 18789, TokA),
      [AgentCfg("bob", "127.0.0.1", 18789, TokA)
          EXCEPT !.gatewayAgentId = Some(<<"alice", "sub">>)]>>

PollConfigs == {Shared, Nested}

PollFrames ==
    {Some(Res(UnknownId, TRUE, Some(HelloOk), Null)), Some(Event("tick", Null)),
     Some(Event("health", Some(HelloOk)))}
    \cup {Some(Res(i, TRUE, Some(Data), Null)) : i \in OldestPending}
    \cup {Some(Res(i, FALSE, Null, Null)) : i \in OldestPending}

NextPoll ==
    \/ \E cfg \in PollConfigs : Start(cfg)
    \/ \E s \in DOMAIN sockets : SocketOpen(s)
    \/ \E s \in DOMAIN sockets, msg \in PollFrames, t \in Times : SocketMessage(s, msg, t)
    \/ \E t \in Times : CallTimerFires(t)
    \/ \E t \in Times : SettleTimerFiresUpTo(MaxPollReq, t)
    \/ \E t \in Times : PollTickUpTo(MaxPollReq, t)

SpecPoll == Init /\ [][NextPoll]_vars

-----------------------------------------------------------------------------
(* SpecTick: the poll timer over one or two links that connect, answer the    *)
(* oldest request or leave it to its timer, and start to close                *)

\* alice and bob on links of their own
Apart == <<AgentCfg("alice", "127.0.0.1", 18789, TokA),
           AgentCfg("bob", "127.0.0.1", 18790, TokA)>>

TickConfigs == {Shared, Apart}

TickFrames ==
    {Some(Res(UnknownId, TRUE, Some(HelloOk), Null))}
    \cup {Some(Res(i, TRUE, Some(Data), Null)) : i \in OldestPending}

NextTick ==
    \/ \E cfg \in TickConfigs : Start(cfg)
    \/ \E s \in DOMAIN sockets : SocketOpen(s)
    \/ \E s \in DOMAIN sockets : SocketClosing(s)
    \/ \E s \in DOMAIN sockets, msg \in TickFrames, t \in Times : SocketMessage(s, msg, t)
    \/ \E t \in Times : CallTimerFires(t)
    \/ \E t \in Times : SettleTimerFiresUpTo(MaxPollReq, t)
    \/ \E t \in Times : PollTickUpTo(MaxPollReq, t)

SpecTick == Init /\ [][NextTick]_vars

-----------------------------------------------------------------------------
(* SpecSnap: snapshots read while a shared link connects, ticks arrive, the   *)
(* host metrics are collected and the configuration is reloaded               *)

\* the readings of Date.now() in getSnapshot
SnapTimes == {1, 2}

SnapFrames ==
    {Some(Res(UnknownId, TRUE, Some(HelloOk), Null)), Some(Event("tick", Null))}

NextSnap ==
    \/ \E reading \in HostReadings, t \in Times : StartWith(Shared, reading, t)
    \/ \E cfg \in RpcReloads : Reload(cfg)
    \/ \E s \in DOMAIN sockets : SocketOpen(s)
    \/ \E s \in DOMAIN sockets, msg \in SnapFrames, t \in Times : SocketMessage(s, msg, t)
    \/ \E reading \in HostReadings, t \in Times : MetricsTick(reading, t)
    \/ \E t \in SnapTimes : GetSnapshotCall(t)

SpecSnap == Init /\ [][NextSnap]_vars

-----------------------------------------------------------------------------
(* getTraces: the delegation forest of the sessions under ~/.openclaw/agents *)

\* the lines of a transcript (JSONL); costs are in units of 0.00001
BadLine == [kind |-> "malformed"]
ModelLine(id) == [kind |-> "model_change", modelId |-> id]
MsgLine(role, cost, tokens, ts) ==
    [kind |-> "message", role |-> role, cost |-> cost, input |-> tokens,
     output |-> 0, cacheRead |-> 0, ts |-> ts]

OrZero(v) == IF v = Null THEN 0 ELSE v[1]

\* the scan that gives up at the first line that does not parse
RECURSIVE ScanTraceAborts(_, _, _)
ScanTraceAborts(lines, i, acc) ==
    IF i > Len(lines) \/ lines[i].kind = "malformed" THEN acc
    ELSE ScanTraceAborts(lines, i + 1,
            IF lines[i].kind = "message"
            THEN [acc EXCEPT !.cost = @ + OrZero(lines[i].cost),
                             !.tokens = @ + lines[i].input + lines[i].output
                                          + lines[i].cacheRead]
            ELSE acc)

\* lines 1289-1311: the statistics of one transcript
RECURSIVE ScanTrace(_, _, _)
ScanTrace(lines, i, acc) ==
    IF i > Len(lines) THEN acc
    ELSE LET l == lines[i]
             next ==
               CASE l.kind = "model_change" -> [acc EXCEPT !.model = Some(l.modelId)]
                 [] l.kind = "message" ->
                      [acc EXCEPT
                         !.cost = @ + OrZero(l.cost),
                         !.tokens = @ + l.input + l.output + l.cacheRead,
                         !.messageCount = IF l.role = "user" THEN @ + 1 ELSE @,
                         !.startTime = IF l.ts = Null THEN @
                                       ELSE IF @ = Null \/ l.ts[1] < @[1] THEN l.ts ELSE @,
                         !.endTime = IF l.ts = Null THEN @
                                     ELSE IF @ = Null \/ l.ts[1] > @[1] THEN l.ts ELSE @]
                 [] OTHER -> acc
         IN  ScanTrace(lines, i + 1, next)

NoStats ==
    [cost |-> 0, tokens |-> 0, messageCount |-> 0, model |-> Null,
     startTime |-> Null, endTime |-> Null]

\* lines 1286-1313: existsSync, readFileSync and the scan, each failure caught
TraceStats(fs, file) ==
    IF file \notin DOMAIN fs.transcripts \/ fs.transcripts[file].kind # "lines"
    THEN NoStats
    ELSE ScanTrace(fs.transcripts[file].lines, 1, NoStats)

\* key.endsWith(':main'), key.includes(':subagent:'): keys are their
\* ':'-separated segments
EndsWithMain(key) == Len(key) >= 2 /\ key[Len(key)] = "main"
IncludesSubagent(key) == \E i \in 2..(Len(key) - 1) : key[i] = "subagent"

\* no session has a parent
ParentKeyNone(key) == Null

\* lines 1320-1327
ParentKey(key) ==
    IF IncludesSubagent(key) /\ Len(key) >= 4 THEN Some(<<key[1], key[2], "main">>)
    ELSE Null

\* lines 1330-1346: the record the index keeps for one session
SessionNode(fs, agentId, e) ==
    LET st == TraceStats(fs, e.sessionFile[1])
    IN  [key |-> e.key, agentId |-> agentId, cost |-> st.cost, tokens |-> st.tokens,
         messageCount |-> st.messageCount, model |-> st.model,
         startTime |-> st.startTime, endTime |-> st.endTime,
         updatedAt |-> e.updatedAt,
         isMain |-> EndsWithMain(e.key) \/ ~IncludesSubagent(e.key),
         parentKey |-> ParentKey(e.key), children |-> <<>>]

KeyIndex(map, key) ==
    IF \E i \in 1..Len(map) : map[i].key = key
    THEN CHOOSE i \in 1..Len(map) : map[i].key = key
    ELSE 0

\* sessionMap.set(key, node): an existing key keeps its position
MapSet(map, node) ==
    IF KeyIndex(map, node.key) # 0 THEN [map EXCEPT ![KeyIndex(map, node.key)] = node]
    ELSE Append(map, node)

\* lines 1276-1347: the entries of one sessions.json
RECURSIVE IndexEntries(_, _, _, _, _)
IndexEntries(fs, map, agentId, entries, i) ==
    IF i > Len(entries) THEN map
    ELSE IndexEntries(fs,
                      IF entries[i].sessionFile = Null THEN map
                      ELSE MapSet(map, SessionNode(fs, agentId, entries[i])),
                      agentId, entries, i + 1)

\* lines 1269-1349: the first pass over the agent directories
RECURSIVE IndexDirs(_, _, _, _)
IndexDirs(fs, map, dirs, i) ==
    IF i > Len(dirs) THEN map
    ELSE IndexDirs(fs,
                   IF dirs[i].isDirectory /\ dirs[i].index.kind = "entries"
                   THEN IndexEntries(fs, map, dirs[i].name, dirs[i].index.entries, 1)
                   ELSE map,
                   dirs, i + 1)

\* the second pass that attaches a session to its parent before asking
\* whether it is a main session
ChildrenOfAnyKind(map, key) ==
    FilterSeq(map, LAMBDA n : n.parentKey = Some(key))

\* the sessions pushed to the children of the session keyed key
ChildrenOf(map, key) ==
    FilterSeq(map, LAMBDA n : ~n.isMain /\ n.parentKey = Some(key))

\* a session with the children the second pass gave it
RECURSIVE Grown(_, _)
Grown(map, node) ==
    LET kids == ChildrenOf(map, node.key)
    IN  [node EXCEPT !.children = [i \in 1..Len(kids) |-> Grown(map, kids[i])]]

\* lines 1353-1366: rootSessions before the sort
RootsOf(map) ==
    FilterSeq(map, LAMBDA n : \/ n.isMain
                              \/ /\ n.parentKey # Null
                                 /\ KeyIndex(map, n.parentKey[1]) = 0)

\* line 1369: Array.prototype.sort is stable; most recent first
RECURSIVE SortRoots(_)
SortRoots(s) ==
    IF Len(s) <= 1 THEN s
    ELSE LET rest == SortRoots(Tail(s))
             before == FilterSeq(rest, LAMBDA n : n.updatedAt > Head(s).updatedAt)
             after == FilterSeq(rest, LAMBDA n : n.updatedAt <= Head(s).updatedAt)
         IN  before \o <<Head(s)>> \o after

\* Math.round(x * 10000) / 10000 in units of 0.00001
Round4(x) == ((x + 5) \div 10) * 10

SumSeq(s, F(_)) ==
    LET S[i \in 0..Len(s)] == IF i = 0 THEN 0 ELSE S[i - 1] + F(s[i])
    IN  S[Len(s)]

MaxSeq(s, F(_), least) ==
    LET M[i \in 0..Len(s)] ==
            IF i = 0 THEN least ELSE IF F(s[i]) > M[i - 1] THEN F(s[i]) ELSE M[i - 1]
    IN  M[Len(s)]

\* lines 1377-1388: calculateDepth over one tree
RECURSIVE Visit(_, _)
Visit(node, depth) ==
    LET below == [i \in 1..Len(node.children) |-> Visit(node.children[i], depth + 1)]
    IN  [subagents |-> (IF node.isMain THEN 0 ELSE 1)
                       + SumSeq(below, LAMBDA v : v.subagents),
         cost |-> node.cost + SumSeq(below, LAMBDA v : v.cost),
         maxDepth |-> MaxSeq(below, LAMBDA v : v.maxDepth, depth)]

NoTraces ==
    [traces |-> <<>>,
     summary |-> [totalSessions |-> 0, totalSubagents |-> 0, totalCost |-> 0,
                  maxDepth |-> 0]]

\* lines 1258-1403
GetTraces(fs) ==
    IF fs.agentsDir = Null THEN NoTraces
    ELSE LET map == IndexDirs(fs, <<>>, fs.agentsDir[1], 1)
             unsorted == RootsOf(map)
             roots == SortRoots([i \in 1..Len(unsorted) |-> Grown(map, unsorted[i])])
             seen == [i \in 1..Len(roots) |-> Visit(roots[i], 1)]
         IN  [traces |-> roots,
              summary |->
                [totalSessions |-> Len(map),
                 totalSubagents |-> SumSeq(seen, LAMBDA v : v.subagents),
                 totalCost |-> Round4(SumSeq(seen, LAMBDA v : v.cost)),
                 maxDepth |-> MaxSeq(seen, LAMBDA v : v.maxDepth, 1)]]

-----------------------------------------------------------------------------
(* SpecTraces: getTraces over small agent directories *)

MainX == <<"agent", "x", "main">>
MainY == <<"agent", "y", "main">>

\* the session keys of the first directory's sessions.json, in file order
TraceKeys ==
    <<MainX,
      <<"agent", "x", "subagent", "1">>,
      <<"agent", "x", "subagent", "main">>,
      <<"x", "subagent", "1">>,
      <<"agent", "y", "subagent", "1">>,
      <<"agent", "z", "main">>>>

\* every entry names the transcript t1, but the last, which names none
Entry(k) ==
    [key |-> TraceKeys[k],
     sessionFile |-> IF k = Len(TraceKeys) THEN Null ELSE Some("t1"),
     updatedAt |-> k]

Reverse(s) == [i \in 1..Len(s) |-> s[Len(s) + 1 - i]]

EntryLists ==
    LET asc(S) == FilterSeq([k \in 1..Len(TraceKeys) |-> Entry(k)],
                            LAMBDA e : e.updatedAt \in S)
    IN  UNION {{asc(S), Reverse(asc(S))} : S \in SUBSET (1..Len(TraceKeys))}

Entries(es) == [kind |-> "entries", entries |-> es]

Dir(name, index) == [name |-> name, isDirectory |-> TRUE, index |-> index]

\* what else the agents directory holds: nothing, a directory without
\* sessions.json, one whose sessions.json does not parse, a plain file, or
\* agent y's directory, without or with a second entry keyed like x's main session
OtherDirs ==
    {<<>>,
     <<Dir("w", [kind |-> "missing"])>>,
     <<Dir("w", [kind |-> "malformed"])>>,
     <<[name |-> "w", isDirectory |-> FALSE, index |-> [kind |-> "missing"]]>>,
     <<Dir("y", Entries(<<[key |-> MainY, sessionFile |-> Some("t2"), updatedAt |-> 9]>>))>>,
     <<Dir("y", Entries(<<[key |-> MainY, sessionFile |-> Some("t2"), updatedAt |-> 9],
                          [key |-> MainX, sessionFile |-> Some("t2"), updatedAt |-> 8]>>))>>}

T1Contents ==
    {[kind |-> "missing"],
     [kind |-> "unreadable"],
     [kind |-> "lines",
      lines |-> <<MsgLine("user", Some(10), 5, Some(3)),
                  MsgLine("assistant", Some(20), 7, Some(4))>>],
     [kind |-> "lines",
      lines |-> <<MsgLine("user", Some(10), 5, Some(3)), BadLine, ModelLine("m1"),
                  MsgLine("assistant", Some(25), 7, Null)>>]}

T2Content == [kind |-> "lines", lines |-> <<MsgLine("user", Some(25), 1, Some(1))>>]

TraceFiles ==
    {[agentsDir |-> Null, transcripts |-> <<>>]}
    \cup {[agentsDir |-> Some(other),
           transcripts |-> [f \in {"t1", "t2"} |-> T2Content]] : other \in OtherDirs}
    \cup {[agentsDir |-> Some(other \o <<Dir("x", Entries(es))>>),
           transcripts |-> [f \in {"t1", "t2"} |-> IF f = "t1" THEN t1 ELSE T2Content]] :
             other \in OtherDirs, es \in EntryLists, t1 \in T1Contents}

InitTraces == InitCollector /\ files \in TraceFiles /\ returned = Null

\* the server answers a request for the traces
TracesCall ==
    /\ files # Null /\ returned = Null
    /\ returned' = Some(GetTraces(files))
    /\ turn' = [type |-> "getTraces"]
    /\ UNCHANGED <<config, agents, gateways, agentGateway, state, sockets, reqCounter,
                   pending, callTimers, reconnectTimers, settleTimers, rounds,
                   pollTimer, emitted, written, resolved, opened, reloads,
                   hostMetrics, hostEmitted, files>>

NextTraces == TracesCall

SpecTraces == InitTraces /\ [][NextTraces]_vars

-----------------------------------------------------------------------------
(* getAnalytics: cost and token totals of the transcripts inside a time range *)

\* milliseconds per day
DayMs == 86400000

\* a usage line with its three token counts
UsageLine(role, cost, input, output, cacheRead, ts) ==
    [kind |-> "message", role |-> role, cost |-> cost, input |-> input,
     output |-> output, cacheRead |-> cacheRead, ts |-> ts]

\* byX.get(key) += {cost, tokens}, the key created at the end when absent
TallyAdd(map, key, cost, tokens) ==
    IF \E i \in 1..Len(map) : map[i].key = key
    THEN [i \in 1..Len(map) |->
            IF map[i].key = key
            THEN [map[i] EXCEPT !.cost = @ + cost, !.tokens = @ + tokens]
            ELSE map[i]]
    ELSE Append(map, [key |-> key, cost |-> cost, tokens |-> tokens])

NoSession ==
    [cost |-> 0, tokens |-> 0, input |-> 0, output |-> 0, cache |-> 0, calls |-> 0,
     model |-> Null]

\* lines 772-813: one message line that passed the timestamp check
CountLine(acc, l) ==
    LET tokens == l.input + l.output + l.cacheRead
        s == [acc.s EXCEPT !.cost = @ + OrZero(l.cost), !.tokens = @ + tokens,
                           !.input = @ + l.input, !.output = @ + l.output,
                           !.cache = @ + l.cacheRead,
                           !.calls = IF l.role = "user" THEN @ + 1 ELSE @]
    IN  [acc EXCEPT
           !.s = s,
           !.byDate = IF l.ts = Null THEN @
                      ELSE TallyAdd(@, l.ts[1] \div DayMs, OrZero(l.cost), tokens),
           !.byModel = IF s.model = Null THEN @
                       ELSE TallyAdd(@, s.model[1], OrZero(l.cost), tokens)]

\* the scan with `break` where the code has `continue`
RECURSIVE ScanCostsStops(_, _, _, _)
ScanCostsStops(lines, i, cutoff, acc) ==
    IF i > Len(lines) THEN acc
    ELSE LET l == lines[i]
         IN  CASE l.kind = "model_change" ->
                    ScanCostsStops(lines, i + 1, cutoff, [acc EXCEPT !.s.model = Some(l.modelId)])
               [] l.kind = "message" ->
                    IF l.ts # Null /\ l.ts[1] < cutoff THEN acc
                    ELSE ScanCostsStops(lines, i + 1, cutoff, CountLine(acc, l))
               [] OTHER -> ScanCostsStops(lines, i + 1, cutoff, acc)

\* lines 762-817: the scan of one transcript
RECURSIVE ScanCosts(_, _, _, _)
ScanCosts(lines, i, cutoff, acc) ==
    IF i > Len(lines) THEN acc
    ELSE LET l == lines[i]
             next ==
               CASE l.kind = "model_change" -> [acc EXCEPT !.s.model = Some(l.modelId)]
                 [] l.kind = "message" ->
                      IF l.ts # Null /\ l.ts[1] < cutoff THEN acc
                      ELSE CountLine(acc, l)
                 [] OTHER -> acc
         IN  ScanCosts(lines, i + 1, cutoff, next)

\* lines 738-850: one file of an agent's sessions directory
AddFile(acc, agentId, f, cutoff) ==
    IF f.mtime = Null \/ f.mtime[1] < cutoff THEN acc
    ELSE LET scanned ==
                 IF f.content.kind # "lines" THEN [acc EXCEPT !.s = NoSession]
                 ELSE ScanCosts(f.content.lines, 1, cutoff, [acc EXCEPT !.s = NoSession])
             s == scanned.s
         IN  [scanned EXCEPT
                !.totalCost = @ + s.cost, !.totalTokens = @ + s.tokens,
                !.inputTokens = @ + s.input, !.outputTokens = @ + s.output,
                !.cacheReadTokens = @ + s.cache, !.apiCalls = @ + s.calls,
                !.byAgent = TallyAdd(@, agentId, s.cost, s.tokens),
                !.sessions = IF s.cost > 0 \/ s.tokens > 0
                             THEN Append(@, [agentId |-> agentId, sessionId |-> f.name,
                                             cost |-> s.cost, tokens |-> s.tokens])
                             ELSE @]

RECURSIVE AddFiles(_, _, _, _, _)
AddFiles(acc, agentId, fs, cutoff, i) ==
    IF i > Len(fs) THEN acc
    ELSE AddFiles(AddFile(acc, agentId, fs[i], cutoff), agentId, fs, cutoff, i + 1)

\* lines 728-853: the loop over the agents
RECURSIVE AddAgentDirs(_, _, _, _)
AddAgentDirs(acc, dirs, cutoff, i) ==
    IF i > Len(dirs) THEN acc
    ELSE AddAgentDirs(IF dirs[i].sessions.kind = "files"
                      THEN AddFiles(acc, dirs[i].name, dirs[i].sessions.files, cutoff, 1)
                      ELSE acc,
                      dirs, cutoff, i + 1)

\* a stable sort of s, the elements with the larger F first
SortDesc(s, F(_)) ==
    LET S[i \in 0..Len(s)] ==
            IF i = 0 THEN <<>>
            ELSE FilterSeq(S[i - 1], LAMBDA n : F(n) >= F(s[i]))
                 \o <<s[i]>>
                 \o FilterSeq(S[i - 1], LAMBDA n : F(n) < F(s[i]))
    IN  S[Len(s)]

\* lines 695-882; range is Null for 'all', and the number of days otherwise
GetAnalytics(fs) ==
    LET cutoff == IF fs.range = Null THEN 0 ELSE fs.now - fs.range[1] * DayMs
        all == IF fs.agentsDir = Null THEN <<>>
               ELSE FilterSeq(fs.agentsDir[1], LAMBDA d : d.isDirectory)
        dirs == IF fs.agentFilter = "all" THEN all
                ELSE FilterSeq(all, LAMBDA d : d.name = fs.agentFilter)
        zero == [totalCost |-> 0, totalTokens |-> 0, inputTokens |-> 0,
                 outputTokens |-> 0, cacheReadTokens |-> 0, apiCalls |-> 0,
                 byAgent |-> <<>>, byDate |-> <<>>, byModel |-> <<>>,
                 sessions |-> <<>>, s |-> NoSession]
        acc == AddAgentDirs(zero, dirs, cutoff, 1)
    IN  [range |-> fs.range, agentFilter |-> fs.agentFilter,
         totalCost |-> Round4(acc.totalCost), totalTokens |-> acc.totalTokens,
         inputTokens |-> acc.inputTokens, outputTokens |-> acc.outputTokens,
         cacheReadTokens |-> acc.cacheReadTokens, apiCalls |-> acc.apiCalls,
         byAgent |-> SortDesc(acc.byAgent, LAMBDA a : a.cost),
         overTime |-> SortDesc(acc.byDate, LAMBDA d : 0 - d.key),
         byModel |-> SortDesc(acc.byModel, LAMBDA m : m.tokens),
         topSessions |-> SubSeq(SortDesc(acc.sessions, LAMBDA x : x.cost), 1,
                                Min(20, Len(acc.sessions)))]

-----------------------------------------------------------------------------
(* SpecAnalytics: getAnalytics over one agent's transcripts, at day 10 *)

Now == 10 * DayMs
InWindow == Some(Now - DayMs)
OutOfWindow == Some(Now - 8 * DayMs)

\* three messages inside a window of 7 days, one outside, one without timestamp
InA == UsageLine("user", Some(10), 1, 2, 3, InWindow)
InB == UsageLine("assistant", Some(20), 1, 2, 3, Some(Now - 2 * DayMs))
InC == UsageLine("user", Some(30), 1, 2, 3, InWindow)
OutD == UsageLine("user", Some(100000), 4, 5, 6, OutOfWindow)
NoTs == UsageLine("user", Some(40), 1, 1, 1, Null)

Orderings(S) ==
    {s \in [1..Cardinality(S) -> S] : \A i, j \in 1..Cardinality(S) : s[i] = s[j] => i = j}

Transcripts ==
    Orderings({InA, InB, InC, OutD})
    \cup {<<InA, OutD, NoTs>>, <<ModelLine("m1"), InA, BadLine, OutD, InB>>, <<>>}

File(name, mtime, content) == [name |-> name, mtime |-> mtime, content |-> content]

\* what the sessions directory holds besides the first transcript
OtherFiles ==
    {<<>>,
     <<File("s2", InWindow, [kind |-> "unreadable"])>>,
     <<File("s2", InWindow, [kind |-> "lines", lines |-> <<InB>>])>>}

AnalyticsFiles ==
    {[now |-> Now, range |-> Some(7), agentFilter |-> "all", agentsDir |-> Null]}
    \cup {[now |-> Now, range |-> range, agentFilter |-> "all",
           agentsDir |->
             Some(<<[name |-> "w", isDirectory |-> TRUE, sessions |-> [kind |-> "missing"]],
                    [name |-> "x", isDirectory |-> TRUE,
                     sessions |-> [kind |-> "files",
                                   files |-> <<File("s1", mtime,
                                                    [kind |-> "lines", lines |-> t])>>
                                             \o other]]>>)] :
             range \in {Null, Some(7)}, mtime \in {Null, InWindow, OutOfWindow},
             t \in Transcripts, other \in OtherFiles}

InitAnalytics == InitCollector /\ files \in AnalyticsFiles /\ returned = Null

\* the server answers GET /api/analytics
AnalyticsCall ==
    /\ files # Null /\ returned = Null
    /\ returned' = Some(GetAnalytics(files))
    /\ turn' = [type |-> "getAnalytics"]
    /\ UNCHANGED <<config, agents, gateways, agentGateway, state, sockets, reqCounter,
                   pending, callTimers, reconnectTimers, settleTimers, rounds,
                   pollTimer, emitted, written, resolved, opened, reloads,
                   hostMetrics, hostEmitted, files>>

NextAnalytics == AnalyticsCall

SpecAnalytics == InitAnalytics /\ [][NextAnalytics]_vars

-----------------------------------------------------------------------------
(* SpecConfig: sequences of loadConfig() calls over every configuration *)

LoadConfig(cfg) ==
    /\ Commit(DoLoadConfig(Mem, cfg))
    /\ config' = Some(cfg)
    /\ turn' = [type |-> "loadConfig"]
    /\ UNCHANGED <<pollTimer, reloads>>

NextConfig == \E cfg \in AllConfigs : LoadConfig(cfg)

SpecConfig == Init /\ [][NextConfig]_vars

-----------------------------------------------------------------------------
(* Properties *)

ConfiguredIds == {agents[i].id : i \in 1..Len(agents)}

\* C1: after any sequence of loadConfig calls, configured agents with
\* identical (host, port, token) reference the same gateway entry, exactly
\* one entry of the gateways map has that key, and that entry lists them.
C1_SharedGatewayEntry ==
    \A a, b \in Range(agents) :
        Triple(a) = Triple(b) =>
            /\ agentGateway[a.id] = agentGateway[b.id]
            /\ Cardinality({i \in 1..Len(gateways) :
                               gateways[i].key = agentGateway[a.id]}) = 1
            /\ \A i \in 1..Len(gateways) :
                   a \in Range(gateways[i].agents)
                       <=> gateways[i].key = agentGateway[a.id]

C1_Witness ==
    /\ Len(gateways) = 1
    /\ Len(gateways[1].agents) = 2
    /\ \E a, b \in Range(agents) : a.id # b.id /\ Triple(a) = Triple(b)

\* C2: after every loadConfig the gateways map has at most as many entries
\* as there are configured agents, and as many as there are distinct
\* (host, port, token) triples in the configuration.
C2_GatewayCountIsTripleCount ==
    config # Null =>
        /\ Len(gateways) <= Len(agents)
        /\ Len(gateways) = Cardinality({Triple(a) : a \in Range(agents)})

StateFields ==
    {"id", "gatewayAgentId", "online", "lastSeen", "health", "sessions", "usage",
     "heartbeat", "presence", "channels", "cron", "error"}

Fresh(r) ==
    /\ r.online = FALSE
    /\ \A f \in StateFields \ {"id", "gatewayAgentId", "online"} : r[f] = Null

C3_Inv ==
    config # Null =>
        /\ DOMAIN state = {config[1][i].id : i \in 1..Len(config[1])}
        /\ DOMAIN state = ConfiguredIds
        /\ \A id \in DOMAIN state :
               DOMAIN state[id] = StateFields /\ state[id].id = Some(id)

C3_Created ==
    \A id \in AgentIds :
        id \notin DOMAIN state /\ id \in DOMAIN state' => Fresh(state'[id])

\* C3: in every state after the first loadConfig the state map holds one
\* complete record for each configured agent id and for no other id, and a
\* record is created with online = false and every other field null.
C3_OneRecordPerAgent == [](C3_Inv) /\ [][C3_Created]_vars

\* a record created by a reload is read while its link never connected and
\* the other agent's record carries merged data
C3_Witness ==
    /\ reloads = 1
    /\ \E id \in DOMAIN state : Fresh(state[id])
    /\ \E id \in DOMAIN state : state[id].online /\ state[id].lastSeen # Null
    /\ \E i \in 1..Len(gateways) : gateways[i].ws = 0

IsRes(t) == t.type = "message" /\ t.msg # Null /\ t.msg[1].type = "res"

\* C4: send() on a link whose state is not `connected` resolves to null in
\* the same turn, writes no frame, arms no timer, adds no pending entry and
\* leaves the request counter as it was.
C4_SendWhileNotConnected ==
    [][(/\ turn'.type = "call"
        /\ ~(GwHas(gateways, turn'.key)
              /\ GwGet(gateways, turn'.key).state = "connected"))
       => /\ resolved' = <<[req |-> 0, target |-> Direct, value |-> Null]>>
          /\ written' = <<>>
          /\ UNCHANGED <<pending, callTimers, reqCounter>>]_vars

\* send() on a link whose socket is open and that waits for its challenge
C4_Witness ==
    /\ turn.type = "call"
    /\ SocketOpenFor(Mem, turn.key)
    /\ GwGet(gateways, turn.key).state = "waiting-challenge"
    /\ resolved = <<[req |-> 0, target |-> Direct, value |-> Null]>>

\* C5: a `res` frame carrying the id of a pending request cancels the
\* request's timer, removes the pending entry and resolves the caller with
\* the payload when ok is true and with null when ok is false.
C5_MatchingResponseResolves ==
    (turn.type = "message" /\ turn.known) =>
        LET msg == turn.msg[1]
        IN  /\ msg.id \notin DOMAIN pending
            /\ \A i \in 1..Len(callTimers) : callTimers[i].id # msg.id
            /\ resolved = <<[req |-> msg.id, target |-> Direct,
                             value |-> IF msg.ok THEN msg.payload ELSE Null]>>

NoEffect ==
    /\ UNCHANGED <<config, agents, gateways, agentGateway, state, sockets,
                   reqCounter, pending, callTimers, reconnectTimers,
                   settleTimers, rounds, pollTimer>>
    /\ emitted' = <<>> /\ written' = <<>> /\ resolved' = <<>> /\ opened' = <<>>

\* C6 as stated: a `res` frame whose id has no pending entry changes nothing,
\* whatever its ok, payload and error fields are.
C6_UnknownResIsNoOp ==
    [][(IsRes(turn') /\ ~turn'.known) => NoEffect]_vars

\* C6 amended: a `res` frame whose id has no pending entry, that is not an ok
\* response with a hello-ok payload and not a failed response carrying an
\* error, changes no agent record, no link, no pending entry and no timer,
\* emits no event and resolves nothing.
C6_UnknownPlainResIsNoOp ==
    [][(/\ IsRes(turn') /\ ~turn'.known
        /\ ~IsHelloOk(turn'.msg[1])
        /\ ~(~turn'.msg[1].ok /\ turn'.msg[1].error # Null))
       => NoEffect]_vars

\* a late answer: the request it answers has timed out, its link is connected
C6_Witness ==
    /\ IsRes(turn) /\ ~turn.known
    /\ turn.msg[1].ok /\ turn.msg[1].payload = Some(Data)
    /\ turn.msg[1].id <= reqCounter
    /\ \E i \in 1..Len(gateways) : gateways[i].state = "connected"
    /\ \E id \in DOMAIN state : state[id].online
    /\ emitted = <<>> /\ resolved = <<>>

ResolvedFor(id) == {i \in 1..Len(resolved') : resolved'[i].req = id}

\* C7: a pending entry is removed and its resolver invoked exactly once, in
\* the turn of the matching response or of its timer, whichever comes first;
\* no other turn touches the entry, and a removed entry has no timer left.
C7_RemovedOnceByTheFirst ==
    [][/\ \A id \in DOMAIN pending :
             LET first == \/ IsRes(turn') /\ turn'.known /\ turn'.msg[1].id = id
                          \/ turn'.type = "callTimeout" /\ turn'.id = id
             IN  IF first
                 THEN id \notin DOMAIN pending' /\ Cardinality(ResolvedFor(id)) = 1
                 ELSE id \in DOMAIN pending' /\ ResolvedFor(id) = {}
       /\ {callTimers'[i].id : i \in 1..Len(callTimers')} = DOMAIN pending'
       /\ \A id \in DOMAIN pending' \ DOMAIN pending : id > reqCounter]_vars

\* C8: every pending request is eventually removed, its resolver being invoked
\* in the turn that removes it; the close, error and open of a socket, a
\* reconnect and a reload leave the pending entries and their timers alone.
C8_RequestsExpire ==
    /\ \A id \in 1..MaxReq : (id \in DOMAIN pending) ~> (id \notin DOMAIN pending)
    /\ [][/\ \A id \in DOMAIN pending \ DOMAIN pending' : ResolvedFor(id) # {}
          /\ \A id \in DOMAIN pending' :
                 \E i \in 1..Len(callTimers') :
                     callTimers'[i].id = id /\ callTimers'[i].ms = 10000
          /\ turn'.type \in {"close", "error", "open", "reconnect", "loadConfig"}
                 => UNCHANGED <<pending, callTimers>> /\ resolved' = <<>>]_vars

\* a request is pending on a link that dropped
C8_Witness ==
    /\ turn.type = "close"
    /\ pending # <<>>
    /\ \A i \in 1..Len(gateways) : gateways[i].state = "disconnected"

HelloTurn(t) == IsRes(t) /\ IsHelloOk(t.msg[1])

\* C9: when an ok response with a hello-ok payload arrives on a link, the
\* link state becomes `connected`, every agent sharing the link gets
\* online = true, error = null and the snapshot as health, and one first-poll
\* timer for that link is armed.
C9_HelloOkConnects ==
    [][(HelloTurn(turn') /\ GwHas(gateways, sockets[turn'.sock].key))
       => LET key == sockets[turn'.sock].key
              gw == GwGet(gateways', key)
          IN  /\ gw.state = "connected"
              /\ \A i \in 1..Len(gw.agents) :
                     LET r == state'[gw.agents[i].id]
                     IN  /\ r.online /\ r.error = Null
                         /\ r.health = turn'.msg[1].payload[1].snapshot
              /\ settleTimers' = Append(settleTimers, [key |-> key, ms |-> 500])]_vars

\* two agents share the link and were offline with a reason
C9_Witness ==
    /\ HelloTurn(turn)
    /\ Len(gateways) = 1 /\ Len(gateways[1].agents) = 2
    /\ gateways[1].state = "connected"
    /\ \A id \in DOMAIN state : state[id].online /\ state[id].error = Null
    /\ Len(sockets) = 2
    /\ settleTimers = <<[key |-> gateways[1].key, ms |-> 500]>>

\* C10 as stated: when the socket of a link opens, the link state is
\* `connecting`.
C10_OpenIsConnecting ==
    (turn.type = "open" /\ Attached(Mem, turn.sock))
        => GwGet(gateways, sockets[turn.sock].key).state = "connecting"

LeavesWaiting(key) ==
    /\ GwHas(gateways, key) /\ GwHas(gateways', key)
    /\ GwGet(gateways, key).state = "waiting-challenge"
    /\ GwGet(gateways', key).state # "waiting-challenge"

\* C10 amended: a link whose socket was just created is `connecting`; when
\* the socket opens the state becomes `waiting-challenge`, and it stays
\* `waiting-challenge` until a hello-ok response, a close or an error of the
\* link is processed.
C10_OpenIsWaitingChallenge ==
    [][/\ \A i \in 1..Len(opened') :
             GwGet(gateways', sockets'[opened'[i]].key).state = "connecting"
       /\ (turn'.type = "open" /\ Attached(Mem, turn'.sock))
             => GwGet(gateways', sockets[turn'.sock].key).state = "waiting-challenge"
       /\ \A key \in AllKeys :
             LeavesWaiting(key)
                 => \/ HelloTurn(turn') /\ sockets[turn'.sock].key = key
                    \/ turn'.type \in {"close", "error"} /\ sockets[turn'.sock].key = key]_vars

C10_Witness ==
    /\ turn.type = "open" /\ Attached(Mem, turn.sock)
    /\ GwGet(gateways, sockets[turn.sock].key).state = "waiting-challenge"


ChallengeTurn(t) ==
    /\ t.type = "message" /\ t.msg # Null /\ t.msg[1].type = "event"
    /\ t.msg[1].event = "connect.challenge"

ConnectFrame(id, token) ==
    ReqFrame(id, "connect", [minProtocol |-> 3, maxProtocol |-> 3, token |-> token])

\* the socket is the one its link holds
CurrentSocket(s) ==
    Attached(Mem, s) /\ GwGet(gateways, sockets[s].key).ws = s

\* C11: a connect.challenge event received on a link's socket makes the
\* client write, in that turn, exactly one connect request to that socket,
\* with a new id, minProtocol = 3, maxProtocol = 3 and the link's token; no
\* agent record, no link, no pending entry and no timer changes, and no
\* update event is emitted.
C11_ChallengeSendsConnect ==
    [][(ChallengeTurn(turn') /\ CurrentSocket(turn'.sock))
       => LET gw == GwGet(gateways, sockets[turn'.sock].key)
          IN  /\ reqCounter' = reqCounter + 1
              /\ written' = <<[sock |-> turn'.sock,
                               frame |-> ConnectFrame(reqCounter', gw.token)]>>
              /\ UNCHANGED <<state, gateways, agents, agentGateway, sockets, pending,
                             callTimers, reconnectTimers, settleTimers, rounds>>
              /\ emitted' = <<>> /\ resolved' = <<>>]_vars

\* the challenge arrives on an open socket of a link two agents share
C11_Witness ==
    /\ ChallengeTurn(turn) /\ CurrentSocket(turn.sock)
    /\ Len(GwGet(gateways, sockets[turn.sock].key).agents) = 2
    /\ GwGet(gateways, sockets[turn.sock].key).state = "waiting-challenge"
    /\ Len(written) = 1 /\ written[1].frame.method = "connect"
    /\ written[1].frame.params.token = TokA


FailedTurn(t) == IsRes(t) /\ ~t.msg[1].ok

LinkOf(s) == GwGet(gateways, sockets[s].key)

CloseReason(code) == Some(<<"disconnected (code ", code, ")">>)

\* C13: in the state the close callback of a link's socket leaves, before any
\* other callback runs, the link is `disconnected` and every agent sharing it
\* has online = false and the error `disconnected (code <code>)`.
C13_CloseMarksOffline ==
    (turn.type = "close" /\ Attached(Mem, turn.sock)) =>
        /\ LinkOf(turn.sock).state = "disconnected"
        /\ \A i \in 1..Len(LinkOf(turn.sock).agents) :
               LET r == state[LinkOf(turn.sock).agents[i].id]
               IN  /\ r.online = FALSE
                   /\ r.error = CloseReason(turn.code)

\* the socket of a link two agents were online on closes with code 1006
C13_Witness ==
    /\ turn.type = "close" /\ Attached(Mem, turn.sock) /\ turn.code = 1006
    /\ Len(LinkOf(turn.sock).agents) = 2
    /\ \A id \in DOMAIN state :
           /\ state[id].lastSeen # Null /\ state[id].health # Null
           /\ ~state[id].online /\ state[id].error = CloseReason(1006)
    /\ Len(emitted) = 2


TimersOf(ts, key) == {i \in 1..Len(ts) : ts[i].key = key}

C14_Inv ==
    /\ \A key \in AllKeys : Cardinality(TimersOf(reconnectTimers, key)) <= 1
    /\ \A i \in 1..Len(reconnectTimers) :
           /\ reconnectTimers[i].ms = 10000
           /\ GwHas(gateways, reconnectTimers[i].key)
           /\ GwGet(gateways, reconnectTimers[i].key).reconnectTimer = reconnectTimers[i].h

C14_Step ==
    \* a close of a socket arms one timer for its link, in place of any it had
    /\ (turn'.type = "close" /\ GwHas(gateways, sockets[turn'.sock].key))
          => /\ Cardinality(TimersOf(reconnectTimers', sockets[turn'.sock].key)) = 1
             /\ Len(reconnectTimers')
                    = Len(ClearReconnect(reconnectTimers,
                                         LinkOf(turn'.sock).reconnectTimer)) + 1
             /\ opened' = <<>>
    \* no other callback arms a timer
    /\ turn'.type # "close" => Len(reconnectTimers') <= Len(reconnectTimers)
    \* after start(), a socket is created only by a timer that fires, one per
    \* timer, for the timer's link
    /\ turn'.type \notin {"start", "reconnect"} => opened' = <<>>
    /\ turn'.type = "reconnect"
          => /\ reconnectTimers' = Tail(reconnectTimers)
             /\ reconnectTimers[1].key = turn'.key
             /\ Len(opened') = 1
             /\ sockets'[opened'[1]].key = turn'.key
             /\ GwGet(gateways', turn'.key).ws = opened'[1]

\* C14: every close of a link's socket arms exactly one 10000 ms reconnect
\* timer for the link, a link never has two timers armed, and a reconnect
\* (_connect after start) is made only by such a timer firing, once per timer.
C14_OneReconnectPerDrop == [](C14_Inv) /\ [][C14_Step]_vars

\* the timer of a dropped link has fired and made the link's second socket
C14_Witness ==
    /\ turn.type = "reconnect"
    /\ opened = <<2>> /\ sockets[1].readyState = "CLOSED"
    /\ GwGet(gateways, turn.key).state = "connecting"
    /\ reconnectTimers = <<>>


\* C15 as stated: the error callback of a link's socket leaves the link with
\* a reconnect timer armed.
C15_ErrorSchedulesReconnect ==
    (turn.type = "error" /\ Attached(Mem, turn.sock))
        => TimersOf(reconnectTimers, sockets[turn.sock].key) # {}

\* a link that had a socket and is in state `error` or `disconnected`
Dropped(key) ==
    /\ GwHas(gateways, key)
    /\ GwGet(gateways, key).state \in {"error", "disconnected"}
    /\ GwGet(gateways, key).ws # 0
    /\ Len(sockets) < MaxSockets

C15_Step ==
    /\ \A s \in DOMAIN sockets :
         (turn'.type \in {"error", "close"} /\ turn'.sock = s /\ Attached(Mem, s))
            => LET gw == GwGet(gateways', sockets[s].key)
               IN  /\ gw.state = IF turn'.type = "error" THEN "error" ELSE "disconnected"
                   /\ \A i \in 1..Len(gw.agents) :
                          /\ state'[gw.agents[i].id].online = FALSE
                          /\ state'[gw.agents[i].id].error # Null
                          /\ state'[gw.agents[i].id].error # Some(<<>>)
                   /\ IF turn'.type = "error"
                      THEN reconnectTimers' = reconnectTimers
                      ELSE TimersOf(reconnectTimers', gw.key) # {}
    /\ turn'.type = "error" => sockets'[turn'.sock].readyState = "CLOSING"

\* C15 amended: on a socket `error` event the link state becomes `error` and
\* on a `close` event `disconnected`, and either marks every sharing agent
\* offline with a reason; only the close handler arms the reconnect timer, the
\* error handler arms none. The close event that follows the error arms it,
\* so a link dropped by either event, while it stays configured, eventually
\* gets a new connection attempt.
C15_DropLeadsToReconnect ==
    /\ [][C15_Step]_vars
    /\ \A key \in AllKeys :
           Dropped(key)
               ~> (~GwHas(gateways, key) \/ GwGet(gateways, key).state = "connecting")

\* the error event of a connected link: no timer yet, the close is to come
C15_Witness ==
    /\ turn.type = "error" /\ Attached(Mem, turn.sock)
    /\ LinkOf(turn.sock).state = "error"
    /\ reconnectTimers = <<>>
    /\ \A id \in DOMAIN state :
           state[id].lastSeen # Null /\ state[id].error = Some(<<"socket error">>)
    /\ Dropped(sockets[turn.sock].key)


-----------------------------------------------------------------------------
(* C16: the sessions of a shared link are split by key prefix *)

\* the rounds whose continuation runs in this step (lines 250-300)
Completed ==
    {rid \in DOMAIN rounds :
        /\ rid \notin DOMAIN rounds'
        /\ ~rounds[rid].detached
        /\ GwHas(gateways, rounds[rid].key)}

\* the items of the sessions field of agent id in the records st
SessionsOf(st, id) == Range(st[id].sessions[1].sessions[1])

\* the round rid ended with a sessions.list result that holds a list
ListedIn(rid) ==
    LET raw == GwGet(gateways', rounds[rid].key).rawData[1].sessions
    IN  raw # Null /\ raw[1].sessions # Null

\* each agent of the link holds exactly the items under its own prefix
C16_ExactPrefix(rid) ==
    LET gw == GwGet(gateways', rounds[rid].key)
        listed == Range(gw.rawData[1].sessions[1].sessions[1])
    IN  \A i \in 1..Len(gw.agents) :
            SessionsOf(state', gw.agents[i].id) =
                {x \in listed : HasAgentPrefix(x.key, AgentKey(gw.agents[i]))}

\* `agent:<a>:` is the beginning of `agent:<b>:`
Nests(a, b) == IsPrefix(AgentKey(a), AgentKey(b))

\* C16 as stated: after a poll round on a shared link every agent's sessions
\* are exactly the listed items whose key starts with agent:<gatewayAgentId>:,
\* and agents with distinct gatewayAgentIds hold disjoint sets of them
C16_SessionsDisjoint ==
    [][\A rid \in Completed : ListedIn(rid) =>
          /\ C16_ExactPrefix(rid)
          /\ LET gw == GwGet(gateways', rounds[rid].key)
             IN  \A i, j \in 1..Len(gw.agents) :
                    AgentKey(gw.agents[i]) # AgentKey(gw.agents[j])
                    => SessionsOf(state', gw.agents[i].id)
                         \cap SessionsOf(state', gw.agents[j].id) = {}]_vars

\* C16 amended: after a poll round on a shared link every agent's sessions are
\* exactly the listed items whose key starts with agent:<gatewayAgentId>:; two
\* agents hold disjoint sets when neither prefix is the beginning of the
\* other, and otherwise the agent with the shorter prefix also holds every
\* item of the other
C16_SessionsByPrefix ==
    [][\A rid \in Completed : ListedIn(rid) =>
          /\ C16_ExactPrefix(rid)
          /\ LET gw == GwGet(gateways', rounds[rid].key)
             IN  \A i, j \in 1..Len(gw.agents) :
                    LET a == gw.agents[i]
                        b == gw.agents[j]
                    IN  /\ ~Nests(a, b) /\ ~Nests(b, a)
                           => SessionsOf(state', a.id) \cap SessionsOf(state', b.id) = {}
                        /\ Nests(a, b)
                           => SessionsOf(state', b.id) \subseteq SessionsOf(state', a.id)]_vars

\* a round on the link alice and bob share has given each of them sessions
C16_Witness ==
    /\ Len(gateways) = 1
    /\ gateways[1].rawData # Null
    /\ gateways[1].rawData[1].sessions # Null
    /\ Len(gateways[1].agents) = 2
    /\ \A id \in {"alice", "bob"} :
          id \in DOMAIN state /\ state[id].sessions # Null
                               /\ SessionsOf(state, id) # {}
    /\ SessionsOf(state, "alice") # SessionsOf(state, "bob")


-----------------------------------------------------------------------------
(* C17: a null result leaves its field alone and the other results are merged *)

PassedThrough == {"heartbeat", "channels", "cron"}

\* C17: when a poll round ends, the raw data hold what each call resolved
\* with; in the record of every agent of the link a field whose call resolved
\* with null keeps the value it had, and every other field holds the new result
C17_NullKeepsField ==
    [][\A rid \in Completed :
          LET gw == GwGet(gateways', rounds[rid].key)
              raw == gw.rawData[1]
          IN  \A i \in 1..Len(gw.agents), k \in 1..Len(Methods) :
                LET id == gw.agents[i].id
                    f == Methods[k].field
                IN  /\ rounds[rid].results[k].done
                       => raw[f] = rounds[rid].results[k].value
                    /\ id \in DOMAIN state /\ id \in DOMAIN state'
                    /\ IF raw[f] = Null
                       THEN state'[id][f] = state[id][f]
                       ELSE /\ state'[id][f] # Null
                            /\ state'[id][f][1].type = raw[f][1].type
                            /\ f \in PassedThrough => state'[id][f] = raw[f]]_vars

\* the last round on the shared link lost its health and cron calls and got
\* the other four; alice and bob still hold a cron value from the round before
C17_Witness ==
    /\ Len(gateways) = 1
    /\ Len(gateways[1].agents) = 2
    /\ gateways[1].rawData # Null
    /\ gateways[1].rawData[1].health = Null
    /\ gateways[1].rawData[1].cron = Null
    /\ \A f \in {"sessions", "usage", "heartbeat", "channels"} :
          gateways[1].rawData[1][f] # Null
    /\ \A id \in {"alice", "bob"} :
          /\ id \in DOMAIN state
          /\ state[id].cron = Some(Data)
          /\ state[id].channels = Some(Data)


-----------------------------------------------------------------------------
(* C18: a poll tick issues six requests per connected link, without backpressure *)

\* the frames this step wrote to socket s
WrittenOn(s) == SelectSeq(written', LAMBDA w : w.sock = s)

\* this step issued the six requests of a round on the links S and nothing on
\* the other links, and left every pending request pending
IssuedOn(S) ==
    /\ \A i \in 1..Len(gateways) :
          LET w == WrittenOn(gateways[i].ws)
          IN  IF i \in S
              THEN /\ Len(w) = Len(Methods)
                   /\ \A k \in 1..Len(Methods) :
                         /\ w[k].frame.type = "req"
                         /\ w[k].frame.method = Methods[k].method
                         /\ w[k].frame.params = Methods[k].params
                         /\ w[k].frame.id > reqCounter
                         /\ w[k].frame.id \in DOMAIN pending'
                         /\ k > 1 => w[k].frame.id = w[k - 1].frame.id + 1
              ELSE Len(w) = 0
    /\ reqCounter' = reqCounter + Len(Methods) * Cardinality(S)
    /\ DOMAIN pending' = DOMAIN pending \cup (reqCounter + 1)..reqCounter'

\* C18 as stated: each poll tick issues six new requests on every link whose
\* state is connected, whatever is pending, and none on the other links
C18_TickIssuesOnConnected ==
    [][turn'.type = "pollAll" =>
          IssuedOn({i \in 1..Len(gateways) : gateways[i].state = "connected"})]_vars

\* C18 amended: each poll tick issues six new requests on every link whose
\* state is connected and whose socket is open, whatever is pending, and none
\* on the other links
C18_TickIssuesOnOpenConnected ==
    [][turn'.type = "pollAll" =>
          IssuedOn({i \in 1..Len(gateways) :
                      /\ gateways[i].state = "connected"
                      /\ SocketOpenFor(Mem, gateways[i].key)})]_vars

\* a poll tick has put six requests on top of the six of an unanswered round
C18_Witness ==
    /\ turn.type = "pollAll"
    /\ Len(written) = Len(Methods)
    /\ Cardinality(DOMAIN pending) = 2 * Len(Methods)
    /\ Cardinality(DOMAIN rounds) = 2


-----------------------------------------------------------------------------
(* C19: a round's results reach the records in one turn, one merge per agent *)

\* the fields only a poll round writes
RoundFields == {"sessions", "usage", "heartbeat", "channels", "cron"}

\* the turn that ends round rid makes one merge per agent of the link, in the
\* order of the link's agents: one update event each, carrying the record the
\* merge produced with its lastSeen set, and no other record changes
OneMergeEach(rid) ==
    LET ags == GwGet(gateways', rounds[rid].key).agents
        ids == {ags[i].id : i \in 1..Len(ags)}
    IN  /\ Len(emitted') = Len(ags)
        /\ \A i \in 1..Len(ags) :
              /\ emitted'[i].id = ags[i].id
              /\ emitted'[i].state = Some(state'[ags[i].id])
              /\ state'[ags[i].id].lastSeen = Some(CHOOSE t \in Times : TRUE)
        /\ \A id \in DOMAIN state \ ids : state'[id] = state[id]
        /\ DOMAIN state' = DOMAIN state \cup ids

\* C19: the results of a poll round are applied in the one turn that ends the
\* round, as one merge per agent of the link, each setting lastSeen and
\* emitting one update event for its agent; no other turn, be it an event, a
\* response or a timer, changes a field that the rounds write
C19_RoundAppliedInOneTurn ==
    [][/\ Cardinality(Completed) <= 1
       /\ \A rid \in Completed : OneMergeEach(rid)
       /\ Completed = {}
            => \A id \in DOMAIN state \cap DOMAIN state', f \in RoundFields :
                  state'[id][f] = state[id][f]]_vars

\* a round has ended on the shared link: its raw data are stored and the turn
\* emitted one update for alice and one for bob, both with sessions
C19_Witness ==
    /\ Len(gateways) = 1
    /\ gateways[1].rawData # Null
    /\ turn.type \in {"message", "callTimeout"}
    /\ Len(emitted) = 2
    /\ emitted[1].id = "alice" /\ emitted[2].id = "bob"
    /\ emitted[1].state[1].sessions # Null
    /\ emitted[2].state[1].sessions # Null
    /\ emitted[1].state[1].health # emitted[2].state[1].health


-----------------------------------------------------------------------------
(* C20: the update events of merges and of pruned agents *)

\* the update events this step emitted for agent id
EventsFor(id) == {k \in 1..Len(emitted') : emitted'[k].id = id}

\* the agents this step's loadConfig dropped
DroppedAgents ==
    IF turn'.type \in {"start", "loadConfig"}
    THEN ConfiguredIds \ {config'[1][i].id : i \in 1..Len(config'[1])}
    ELSE {}

\* the k-th event of this step announces a dropped agent
IsRemoval(k) ==
    /\ emitted'[k] = [id |-> emitted'[k].id, state |-> Null, removed |-> TRUE]
    /\ emitted'[k].id \in DroppedAgents

\* the k-th event of this step carries the record a merge produced: the record
\* the agent has after the step when this is the step's last merge for it
CarriesMerged(k) ==
    /\ emitted'[k].state # Null
    /\ emitted'[k].id \in DOMAIN state'
    /\ k = CHOOSE j \in EventsFor(emitted'[k].id) :
                \A i \in EventsFor(emitted'[k].id) : i <= j
          => emitted'[k].state = Some(state'[emitted'[k].id])

\* every record that changed has its event, every dropped agent has exactly
\* one event and no record
MergesAndDropsAnnounced ==
    /\ \A id \in DOMAIN state \cap DOMAIN state' :
          state'[id] # state[id] => EventsFor(id) # {}
    /\ \A id \in DOMAIN state' \ DOMAIN state :
          turn'.type \in {"start", "loadConfig"} /\ EventsFor(id) = {}
    /\ \A id \in DroppedAgents :
          Cardinality(EventsFor(id)) = 1 /\ id \notin DOMAIN state'

\* C20 as stated: every merge into a record emits {id, state, removed:false}
\* with the record after the merge, a reload that drops an agent emits exactly
\* one {id, state:null, removed:true} for it and removes its record, and no
\* other update event is emitted
C20_UpdateEventsWithFlag ==
    [][/\ MergesAndDropsAnnounced
       /\ \A k \in 1..Len(emitted') :
             \/ IsRemoval(k)
             \/ /\ DOMAIN emitted'[k] = {"id", "state", "removed"}
                /\ emitted'[k].removed = FALSE
                /\ CarriesMerged(k)]_vars

\* C20 amended: every merge into a record emits {id, state} with the record
\* after the merge and no removed property, a reload that drops an agent emits
\* exactly one {id, state:null, removed:true} for it and removes its record,
\* and no other update event is emitted
C20_UpdateEvents ==
    [][/\ MergesAndDropsAnnounced
       /\ \A k \in 1..Len(emitted') :
             \/ IsRemoval(k)
             \/ /\ DOMAIN emitted'[k] = {"id", "state"}
                /\ CarriesMerged(k)]_vars

\* a reload has dropped bob, whose record is gone and whose removal is the
\* turn's only event, after alice's record was merged into
C20_Witness ==
    /\ turn.type = "loadConfig"
    /\ emitted = <<[id |-> "bob", state |-> Null, removed |-> TRUE]>>
    /\ "bob" \notin DOMAIN state
    /\ "alice" \in DOMAIN state
    /\ state["alice"].lastSeen # Null


-----------------------------------------------------------------------------
(* C21: getSnapshot reads and changes nothing *)

\* C21: getSnapshot changes no collector state and emits nothing; it returns
\* the agents map and the host metrics as they are, so a call that directly
\* follows another returns the same agents and the same host metrics
C21_SnapshotIsPure ==
    [][turn'.type = "getSnapshot" =>
          /\ UNCHANGED <<config, agents, gateways, agentGateway, state, sockets,
                         reqCounter, pending, callTimers, reconnectTimers,
                         settleTimers, rounds, pollTimer, reloads, hostMetrics>>
          /\ emitted' = <<>> /\ hostEmitted' = <<>>
          /\ written' = <<>> /\ resolved' = <<>> /\ opened' = <<>>
          /\ turn'.result.agents = state
          /\ turn'.result.host = hostMetrics
          /\ turn.type = "getSnapshot"
               => /\ turn'.result.agents = turn.result.agents
                  /\ turn'.result.host = turn.result.host]_vars

\* a second snapshot in a row, taken at another time, of a collector that has
\* merged into alice's record and collected host metrics
C21_Witness ==
    /\ turn.type = "getSnapshot"
    /\ turn.again
    /\ turn.result.ts = 2
    /\ "alice" \in DOMAIN turn.result.agents
    /\ turn.result.agents["alice"].lastSeen # Null
    /\ turn.result.host # NoMetrics


-----------------------------------------------------------------------------
(* C22: subagent sessions hang under their agent's main session *)

\* the directories whose sessions.json is read
ReadDirs ==
    IF files = Null \/ files.agentsDir = Null THEN {}
    ELSE {d \in Range(files.agentsDir[1]) : d.isDirectory /\ d.index.kind = "entries"}

\* the keys of the sessions.json entries that name a sessionFile
IndexedKeys ==
    UNION {{e.key : e \in {x \in Range(d.index.entries) : x.sessionFile # Null}} :
             d \in ReadDirs}

Forest == returned[1].traces

RootKeys == {Forest[i].key : i \in 1..Len(Forest)}

IsChildOf(key, pkey) ==
    \E r \in Range(Forest) : r.key = pkey /\ \E c \in Range(r.children) : c.key = key

\* C22 as stated: a session keyed agent:<a>:... whose key contains :subagent:
\* is a child of the session keyed agent:<a>:main whenever that is indexed,
\* and is no root then
C22_SubagentUnderMain ==
    returned # Null =>
        \A key \in IndexedKeys :
            /\ key[1] = "agent" /\ IncludesSubagent(key)
            /\ <<"agent", key[2], "main">> \in IndexedKeys
            => IsChildOf(key, <<"agent", key[2], "main">>) /\ key \notin RootKeys

\* C22 amended: a session keyed agent:<a>:... whose key contains :subagent:,
\* has at least four segments and does not end with :main is a child of the
\* session keyed agent:<a>:main whenever that is indexed, and is no root then;
\* one whose key ends with :main is a root
C22_SubagentNotMainUnderMain ==
    returned # Null =>
        \A key \in IndexedKeys :
            /\ key[1] = "agent" /\ IncludesSubagent(key) /\ Len(key) >= 4
               /\ ~EndsWithMain(key)
               /\ <<"agent", key[2], "main">> \in IndexedKeys
               => IsChildOf(key, <<"agent", key[2], "main">>) /\ key \notin RootKeys
            /\ EndsWithMain(key) => key \in RootKeys

\* the forest holds agent:x:subagent:1 under agent:x:main
C22_Witness ==
    /\ returned # Null
    /\ IsChildOf(<<"agent", "x", "subagent", "1">>, MainX)
    /\ <<"agent", "x", "subagent", "1">> \notin RootKeys


-----------------------------------------------------------------------------
(* C23: no indexed session is lost from the forest *)

\* the nodes of the trees in s, parents before their children
RECURSIVE Flat(_)
Flat(s) ==
    IF Len(s) = 0 THEN <<>>
    ELSE <<Head(s)>> \o Flat(Head(s).children) \o Flat(Tail(s))

\* the number of sessions.json entries that name a sessionFile
IndexedCount ==
    LET dirs == IF files.agentsDir = Null THEN <<>> ELSE files.agentsDir[1]
    IN  SumSeq(dirs, LAMBDA d :
           IF d.isDirectory /\ d.index.kind = "entries"
           THEN Len(FilterSeq(d.index.entries, LAMBDA e : e.sessionFile # Null))
           ELSE 0)

\* C23: every sessions.json entry with a sessionFile is exactly one node of
\* the forest getTraces returns, a root or a child, whatever its key
C23_EverySessionOnce ==
    returned # Null =>
        /\ \A key \in IndexedKeys :
              Cardinality({i \in 1..Len(Flat(Forest)) : Flat(Forest)[i].key = key}) = 1
        /\ Len(Flat(Forest)) = IndexedCount


-----------------------------------------------------------------------------
(* C24: an out-of-window message is skipped and the scan goes on *)

\* the cutoff of the request in files
Cutoff == IF files.range = Null THEN 0 ELSE files.now - files.range[1] * DayMs

\* the transcripts getAnalytics was asked to aggregate
AllTranscripts ==
    IF files.agentsDir = Null THEN {}
    ELSE UNION {Range(d.sessions.files) :
                  d \in {x \in Range(files.agentsDir[1]) : x.sessions.kind = "files"}}

\* the sum of the costs of the message lines of transcript f that satisfy Keep
CostOf(f, Keep(_)) ==
    IF f.content.kind # "lines" THEN 0
    ELSE SumSeq(f.content.lines,
                LAMBDA l : IF l.kind = "message" /\ Keep(l) THEN OrZero(l.cost) ELSE 0)

SumOver(S, F(_)) ==
    LET R[T \in SUBSET S] ==
            IF T = {} THEN 0
            ELSE LET x == CHOOSE y \in T : TRUE IN F(x) + R[T \ {x}]
    IN  R[S]

\* the transcripts that are scanned: those modified inside the window
Scanned == {f \in AllTranscripts : f.mtime # Null /\ f.mtime[1] >= Cutoff}

\* C24 as stated: the total cost is the sum over the scanned transcripts of the
\* costs of exactly the messages whose timestamp is inside the window,
\* wherever the out-of-window messages stand in the file
C24_CountsTimestampsInWindow ==
    returned # Null =>
        returned[1].totalCost =
            SumOver(Scanned,
                    LAMBDA f : CostOf(f, LAMBDA l : l.ts # Null /\ l.ts[1] >= Cutoff))

\* C24 amended: the total cost is the sum over the scanned transcripts of the
\* costs of the messages that carry no timestamp older than the cutoff, a
\* message without timestamp included, wherever the out-of-window messages
\* stand in the file
C24_SkipsOnlyOlderTimestamps ==
    returned # Null =>
        returned[1].totalCost =
            SumOver(Scanned,
                    LAMBDA f : CostOf(f, LAMBDA l : l.ts = Null \/ l.ts[1] >= Cutoff))

\* the out-of-window message of cost 100000 stands first in the transcript and
\* the three in-window messages after it are counted: 10 + 20 + 30
C24_Witness ==
    /\ returned # Null
    /\ files.range = Some(7)
    /\ \E f \in AllTranscripts :
          /\ f.content.kind = "lines"
          /\ f.content.lines \in Orderings({InA, InB, InC, OutD})
          /\ f.content.lines[1] = OutD
          /\ AllTranscripts = {f}
    /\ returned[1].totalCost = 60


-----------------------------------------------------------------------------
(* C25: the summary of getTraces against its forest *)

\* the number of nodes on the longest path from a root of s to a leaf
RECURSIVE Depth(_)
Depth(s) ==
    MaxSeq([i \in 1..Len(s) |-> 1 + Depth(s[i].children)], LAMBDA d : d, 0)

\* C25: the summary matches the forest: totalSessions is its number of nodes,
\* totalSubagents its number of non-root nodes, totalCost the sum of the
\* nodes' costs and maxDepth the length of its longest root-to-leaf path
C25_SummaryMatchesForest ==
    returned # Null =>
        LET s == returned[1].summary
        IN  /\ s.totalSessions = Len(Flat(Forest))
            /\ s.totalSubagents = Len(Flat(Forest)) - Len(Forest)
            /\ s.totalCost = SumSeq(Flat(Forest), LAMBDA n : n.cost)
            /\ s.maxDepth = Depth(Forest)


-----------------------------------------------------------------------------
(* C26: what cannot be read or parsed is skipped *)

\* the indexed entries in the order getTraces meets them
AllEntries ==
    LET dirs == IF files.agentsDir = Null THEN <<>> ELSE files.agentsDir[1]
        E[i \in 0..Len(dirs)] ==
            IF i = 0 THEN <<>>
            ELSE IF dirs[i].isDirectory /\ dirs[i].index.kind = "entries"
                 THEN E[i - 1] \o FilterSeq(dirs[i].index.entries,
                                            LAMBDA e : e.sessionFile # Null)
                 ELSE E[i - 1]
    IN  E[Len(dirs)]

\* the entry that stands for key in the index: the last one with that key
EntryOf(key) ==
    AllEntries[CHOOSE i \in 1..Len(AllEntries) :
                  /\ AllEntries[i].key = key
                  /\ \A j \in (i + 1)..Len(AllEntries) : AllEntries[j].key # key]

\* the costs of all message lines of a transcript that can be read
ReadableCost(name) ==
    IF name \notin DOMAIN files.transcripts \/ files.transcripts[name].kind # "lines"
    THEN 0
    ELSE SumSeq(files.transcripts[name].lines,
                LAMBDA l : IF l.kind = "message" THEN OrZero(l.cost) ELSE 0)

\* C26: getTraces always returns a result; a missing agents directory gives
\* the empty result; a directory without sessions.json, with one that does
\* not parse, or a plain file adds nothing and takes nothing away from the
\* other directories' sessions; a session whose transcript is missing or
\* unreadable is kept with cost 0; and a malformed line is skipped, the
\* message lines before and after it being added up
C26_UnreadableIsSkipped ==
    returned # Null =>
        /\ DOMAIN returned[1] = {"traces", "summary"}
        /\ files.agentsDir = Null => returned[1] = NoTraces
        /\ ReadDirs = {} => Forest = <<>>
        /\ \A key \in IndexedKeys : EndsWithMain(key) => key \in RootKeys
        /\ \A i \in 1..Len(Flat(Forest)) :
              LET n == Flat(Forest)[i]
              IN  /\ n.key \in IndexedKeys
                  /\ n.cost = ReadableCost(EntryOf(n.key).sessionFile[1])

\* next to a directory whose sessions.json does not parse, agent:x:main is a
\* root whose transcript has a malformed line between two messages: 10 + 25
C26_Witness ==
    /\ returned # Null
    /\ files.agentsDir # Null
    /\ \E d \in Range(files.agentsDir[1]) : d.isDirectory /\ d.index.kind = "malformed"
    /\ files.transcripts["t1"].kind = "lines"
    /\ \E l \in Range(files.transcripts["t1"].lines) : l.kind = "malformed"
    /\ \E r \in Range(Forest) : r.key = MainX /\ r.cost = 35


-----------------------------------------------------------------------------
(* C27: request ids *)

\* the request frames written in the step, in the order they were written
Requests == SelectSeq(written', LAMBDA w : w.frame.type = "req")

\* C27: request ids are strictly increasing over the whole collector: every
\* request frame written in a turn, a connect request included, carries an id
\* above the counter the turn started with and not above the counter it ends
\* with, the ids of one turn increase in the order written, the counter never
\* goes back, and an entry added to the pending map has such a fresh id.
C27_RequestIdsIncrease ==
    [][/\ reqCounter' >= reqCounter
       /\ \A k \in 1..Len(Requests) :
             /\ Requests[k].frame.id > reqCounter
             /\ Requests[k].frame.id <= reqCounter'
             /\ \A j \in 1..(k - 1) : Requests[j].frame.id < Requests[k].frame.id
       /\ \A id \in DOMAIN pending' \ DOMAIN pending :
             id > reqCounter /\ id <= reqCounter']_vars

\* a later handshake: the connect request written to a socket that is not
\* the first carries an id above that of the first handshake
C27_Witness ==
    /\ Len(written) = 1
    /\ written[1].frame.method = "connect"
    /\ written[1].frame.id > 1
    /\ written[1].sock > 1
    /\ reqCounter = written[1].frame.id


-----------------------------------------------------------------------------
(* C28: one live socket per gateway *)

\* the sockets of a link that are connecting or open
LiveOn(socks, key) ==
    {s \in DOMAIN socks : socks[s].key = key /\ socks[s].readyState \in {"CONNECTING", "OPEN"}}

\* the sockets created in the step
Created == (Len(sockets) + 1)..Len(sockets')

\* C28: a link has at most one socket that is connecting or open, and it is
\* the one its gateway holds; when a socket is created for a link, every
\* earlier socket of that link has been closed; and a turn run by an event of
\* a socket that has a successor on its link changes neither a gateway nor an
\* agent record, emits nothing and arms no reconnect.
C28_OneLiveSocket ==
    [][/\ \A key \in {sockets'[s].key : s \in DOMAIN sockets'} :
             /\ Cardinality(LiveOn(sockets', key)) <= 1
             /\ \A s \in LiveOn(sockets', key) :
                   \A i \in 1..Len(gateways') :
                       gateways'[i].key = key /\ gateways'[i].ws # 0 => gateways'[i].ws = s
       /\ \A s \in Created : \A p \in 1..(s - 1) :
             sockets'[p].key = sockets'[s].key
                 => sockets'[p].readyState \in {"CLOSING", "CLOSED"}
       /\ \A s \in DOMAIN sockets :
             /\ "sock" \in DOMAIN turn' /\ turn'.sock = s
             /\ \E n \in DOMAIN sockets : n > s /\ sockets[n].key = sockets[s].key
             => /\ gateways' = gateways /\ state' = state
                /\ emitted' = <<>> /\ reconnectTimers' = reconnectTimers]_vars

\* after a reconnect: the first socket of the link is closed, the second is
\* open and is the one the gateway holds
C28_Witness ==
    /\ Len(sockets) = 2 /\ sockets[1].key = sockets[2].key
    /\ sockets[1].readyState = "CLOSED" /\ sockets[2].readyState = "OPEN"
    /\ \E i \in 1..Len(gateways) : gateways[i].ws = 2 /\ gateways[i].state = "connected"
    /\ turn.type = "message" /\ turn.sock = 2


-----------------------------------------------------------------------------
(* C29: the shared mark of the usage *)

\* the results the round rid ended with, as the gateway keeps them
RawOf(rid) == GwGet(gateways', rounds[rid].key).rawData[1]

\* the agents on the link of round rid when its results are applied
SharingAt(rid) == GwGet(gateways', rounds[rid].key).agents

\* C29: when a poll round that got a usage result is applied, every agent on
\* the link at that moment stores that usage with shared = TRUE if the link
\* then has more than one agent and shared = FALSE if the agent is alone on
\* it, however many agents the link had when the round was started.
C29_SharedMarksCompany ==
    [][\A rid \in Completed :
          RawOf(rid).usage # Null =>
              \A i \in 1..Len(SharingAt(rid)) :
                  LET usage == state'[SharingAt(rid)[i].id].usage
                  IN  /\ usage # Null
                      /\ usage[1].shared = (Len(SharingAt(rid)) > 1)
                      /\ usage[1] = With(RawOf(rid).usage[1], "shared",
                                         Len(SharingAt(rid)) > 1)]_vars

\* a link that was reloaded to a single agent holds a usage marked not shared
C29_Witness ==
    /\ reloads = 1 /\ turn.type = "message"
    /\ \E i \in 1..Len(gateways) :
          /\ Len(gateways[i].agents) = 1
          /\ gateways[i].rawData # Null
          /\ state[gateways[i].agents[1].id].usage # Null
          /\ ~state[gateways[i].agents[1].id].usage[1].shared
    /\ Len(emitted) = 1


-----------------------------------------------------------------------------
(* C30: heartbeat, channels and cron are the link's *)

GatewayWide == {"heartbeat", "channels", "cron"}

\* C30: when a poll round on a link is applied, each of heartbeat, channels
\* and cron for which the round got a payload is stored unchanged on every
\* agent sharing the link, so all of them hold the same value, the payload of
\* that round.
C30_GatewayWideFieldsAgree ==
    [][\A rid \in Completed : \A f \in GatewayWide :
          RawOf(rid)[f] # Null =>
              \A i \in 1..Len(SharingAt(rid)) :
                  /\ state'[SharingAt(rid)[i].id][f] = RawOf(rid)[f]
                  /\ state'[SharingAt(rid)[i].id][f] = state'[SharingAt(rid)[1].id][f]]_vars

\* a round on a link of two agents got all three payloads: both agents hold
\* them
C30_Witness ==
    /\ turn.type = "message" /\ Len(emitted) = 2
    /\ Len(gateways) = 1 /\ Len(gateways[1].agents) = 2
    /\ gateways[1].rawData # Null
    /\ \A f \in GatewayWide :
          /\ gateways[1].rawData[1][f] = Some(Data)
          /\ \A i \in 1..2 : state[gateways[1].agents[i].id][f] = Some(Data)


-----------------------------------------------------------------------------
(* SpecEvents: unsolicited events on one link or on two *)

EventTimes == {1, 2}

EventFrames ==
    {Some(Event("tick", Null)),
     Some(Event("health", Some(HelloOk))), Some(Event("health", Null)),
     Some(Event("presence", Some(Data))), Some(Event("presence", Null)),
     Some(Res(UnknownId, TRUE, Some(HelloOk), Null)),
     Some(Res(UnknownId, FALSE, Null, Denied))}

NextEvents ==
    \/ \E cfg \in TickConfigs : Start(cfg)
    \/ \E cfg \in RpcReloads : Reload(cfg)
    \/ \E s \in DOMAIN sockets : SocketOpen(s)
    \/ \E s \in DOMAIN sockets : SocketError(s)
    \/ \E s \in DOMAIN sockets, msg \in EventFrames, t \in EventTimes :
            SocketMessage(s, msg, t)
    \/ \E t \in Times : SettleTimerFires(t)

SpecEvents == Init /\ [][NextEvents]_vars

-----------------------------------------------------------------------------
(* C31: health, presence and tick events *)

\* the step is the message turn of a health, presence or tick event that
\* arrived for a link that is in the map
Unsolicited ==
    /\ turn'.type = "message" /\ turn'.msg # Null
    /\ turn'.msg[1].type = "event"
    /\ turn'.msg[1].event \in {"health", "presence", "tick"}
    /\ GwHas(gateways, sockets[turn'.sock].key)

\* the ids of the agents on the link the turn's socket was opened for
OnLink == {a.id : a \in Range(GwGet(gateways, sockets[turn'.sock].key).agents)}

\* C31: a health, presence or tick event on a link sets lastSeen to the time
\* of the event on every agent sharing the link, leaves the record of every
\* agent of another link as it was, and changes neither online nor error of
\* any agent.
C31_EventsTouchLastSeenOnly ==
    [][Unsolicited =>
          /\ DOMAIN state' = DOMAIN state
          /\ \E t \in EventTimes : \A id \in OnLink : state'[id].lastSeen = Some(t)
          /\ \A id \in DOMAIN state \ OnLink : state'[id] = state[id]
          /\ \A id \in DOMAIN state :
                /\ state'[id].online = state[id].online
                /\ state'[id].error = state[id].error
          /\ gateways' = gateways]_vars

\* two links, each with its agent online; a health event on the second has
\* just moved bob's lastSeen and left alice's
C31_Witness ==
    /\ turn.type = "message" /\ turn.msg # Null /\ turn.msg[1].type = "event"
    /\ turn.msg[1].event = "health"
    /\ Len(gateways) = 2
    /\ DOMAIN state = {"alice", "bob"}
    /\ state["alice"].online /\ state["bob"].online
    /\ state["alice"].lastSeen = Some(1) /\ state["bob"].lastSeen = Some(2)
    /\ Len(emitted) = 1 /\ emitted[1].id = "bob"


-----------------------------------------------------------------------------
(* C32: frames that are discarded *)

\* the frame of turn tn cannot be parsed, or makes _handleMessage throw: its
\* gateway is gone from the map and the branch taken reads a property of it
DiscardedIn(tn, gws, socks) ==
    /\ tn.type = "message"
    /\ \/ tn.msg = Null
       \/ /\ ~GwHas(gws, socks[tn.sock].key)
          /\ \/ tn.msg[1].type = "event"
             \/ tn.msg[1].type = "res"
                /\ (IsHelloOk(tn.msg[1]) \/ (~tn.msg[1].ok /\ tn.msg[1].error # Null))

\* C32: a frame that cannot be parsed or that makes the handler throw ends
\* its turn with the gateways, the pending map, the timers, the agent records
\* and the sockets as they were and with nothing emitted or resolved; and a
\* tick that arrives next on the same socket, its link being in the map, is
\* processed as any other: it sets lastSeen on the agents of the link.
C32_BadFrameIsDiscarded ==
    [][/\ DiscardedIn(turn', gateways, sockets) =>
             /\ gateways' = gateways /\ pending' = pending /\ state' = state
             /\ callTimers' = callTimers /\ settleTimers' = settleTimers
             /\ reconnectTimers' = reconnectTimers /\ rounds' = rounds
             /\ sockets' = sockets
             /\ emitted' = <<>> /\ resolved' = <<>> /\ written' = <<>>
       /\ /\ DiscardedIn(turn, gateways, sockets)
          /\ turn'.type = "message" /\ turn'.sock = turn.sock
          /\ turn'.msg = Some(Event("tick", Null))
          /\ GwHas(gateways, sockets[turn.sock].key)
          => \A a \in Range(GwGet(gateways, sockets[turn.sock].key).agents) :
                 /\ state'[a.id].lastSeen # Null
                 /\ \E i \in 1..Len(emitted') : emitted'[i].id = a.id]_vars

\* data that does not parse has just arrived on a connected link on which a
\* poll round is waiting for its answers: the link is still connected, the
\* requests are still pending and the socket still receives
C32_Witness ==
    /\ turn.type = "message" /\ turn.msg = Null
    /\ sockets[turn.sock].receiving
    /\ GwHas(gateways, sockets[turn.sock].key)
    /\ GwGet(gateways, sockets[turn.sock].key).state = "connected"
    /\ Cardinality(DOMAIN pending) = Len(Methods)


-----------------------------------------------------------------------------
(* C33: a reload while requests are in flight *)

\* the rounds whose continuation runs in this step, applied or not
Ended == DOMAIN rounds \ DOMAIN rounds'

\* the agents whose record the step wrote or announced
Touched ==
    {id \in DOMAIN state' : id \notin DOMAIN state \/ state'[id] # state[id]}
    \cup {emitted'[i].id : i \in 1..Len(emitted')}

\* C33: a reload leaves the pending map and the request timers as they are
\* and resolves nothing; and the turn in which a poll round ends writes only
\* records of agents that are configured on the round's link at that moment,
\* so it never creates or updates the record of an agent a reload removed or
\* moved to another link.
C33_ReloadKeepsRequests ==
    [][/\ turn'.type = "loadConfig" =>
             /\ pending' = pending /\ callTimers' = callTimers
             /\ resolved' = <<>> /\ DOMAIN rounds' = DOMAIN rounds
       /\ Ended # {} =>
             /\ DOMAIN state' = DOMAIN state
             /\ \A id \in Touched :
                   /\ id \in DOMAIN agentGateway
                   /\ \E rid \in Ended :
                         /\ agentGateway[id] = rounds[rid].key
                         /\ GwHas(gateways, rounds[rid].key)
                         /\ \E a \in Range(GwGet(gateways, rounds[rid].key).agents) :
                               a.id = id]_vars

\* the reload that removed bob has just run while the six requests of a poll
\* round were waiting: they are still pending, each with its timer
C33_Witness ==
    /\ turn.type = "loadConfig"
    /\ "bob" \notin DOMAIN state /\ "alice" \in DOMAIN state
    /\ Cardinality(DOMAIN pending) = Len(Methods)
    /\ Len(callTimers) = Len(Methods)
    /\ DOMAIN rounds # {}


-----------------------------------------------------------------------------
(* SpecStop: the collector is started, runs and is stopped *)

NextStop ==
    \/ \E cfg \in StartConfigs : Start(cfg)
    \/ \E s \in DOMAIN sockets : SocketOpen(s)
    \/ \E s \in DOMAIN sockets : SocketError(s)
    \/ \E s \in DOMAIN sockets, code \in CloseCodes : SocketClose(s, code)
    \/ \E s \in DOMAIN sockets, msg \in DropFrames, t \in Times : SocketMessage(s, msg, t)
    \/ \E t \in Times : SettleTimerFires(t)
    \/ ReconnectTimerFires
    \/ Stop

SpecStop == Init /\ [][NextStop]_vars

-----------------------------------------------------------------------------
(* C34: after stop() *)

\* C34: once stop() has been called no socket is opened and no reconnect
\* timer is armed, also in the turns of the close events of the sockets that
\* stop() closed.
C34_StoppedStaysStopped ==
    [][pollTimer' = "cleared" =>
          /\ Len(sockets') = Len(sockets)
          /\ reconnectTimers' = <<>>]_vars


-----------------------------------------------------------------------------
(* SpecRace: two poll rounds on one link; the gateway answers the requests   *)
(* of each round in the order of their ids, but the two rounds in any order, *)
(* and leaves what it does not answer to the timers                          *)

\* the oldest pending request of each round
OldestOfRound ==
    {i \in DOMAIN pending :
        \A j \in DOMAIN pending :
            pending[j].target.round = pending[i].target.round => i <= j}

RaceFrames ==
    {Some(Res(UnknownId, TRUE, Some(HelloOk), Null))}
    \cup {Some(Res(i, TRUE, Some(Data), Null)) : i \in OldestOfRound}

NextRace ==
    \/ Start(Shared)
    \/ \E s \in DOMAIN sockets : SocketOpen(s)
    \/ \E s \in DOMAIN sockets, msg \in RaceFrames, t \in Times : SocketMessage(s, msg, t)
    \/ \E t \in Times : CallTimerFires(t)
    \/ \E t \in Times : SettleTimerFiresUpTo(MaxPollReq, t)
    \/ \E t \in Times : PollTickUpTo(MaxPollReq, t)

SpecRace == Init /\ [][NextRace]_vars

-----------------------------------------------------------------------------
(* C35: the order in which overlapping rounds are applied *)

\* the round issued on the link right after round rid has been issued and
\* its continuation has run
LaterApplied(rid) ==
    /\ reqCounter >= rid + 2 * Len(Methods) - 1
    /\ (rid + Len(Methods)) \notin DOMAIN rounds

\* C35: a round that brings data is never applied after a round that was
\* issued later on the same link has been applied, so a field a later round
\* wrote is not overwritten with data of an earlier round.
C35_RoundsAppliedInIssueOrder ==
    [][\A rid \in Completed :
          (\E f \in DOMAIN RawOf(rid) : RawOf(rid)[f] # Null) => ~LaterApplied(rid)]_vars


-----------------------------------------------------------------------------
(* C36: the gateway a reload creates *)

\* the key of the endpoint the reload of SpecDrop moves bob to
NewKey == GwKey(AgentCfg("bob", "127.0.0.1", 18790, TokA))

\* C36: a gateway entry that a reload created after start() eventually gets
\* a connection attempt: it does not stay in the map without a socket.
C36_ReloadedGatewayConnects ==
    (GwHas(gateways, NewKey) /\ GwGet(gateways, NewKey).ws = 0)
        ~> (~GwHas(gateways, NewKey) \/ GwGet(gateways, NewKey).ws # 0)


-----------------------------------------------------------------------------
(* C37: online agents and connected links *)

\* C37: an agent record with online = TRUE belongs to a gateway that is in
\* the map with link state connected.
C37_OnlineMeansConnected ==
    \A id \in DOMAIN state :
        state[id].online =>
            /\ id \in DOMAIN agentGateway
            /\ GwHas(gateways, agentGateway[id])
            /\ GwGet(gateways, agentGateway[id]).state = "connected"


-----------------------------------------------------------------------------
(* C38: a response and the link of its request *)

\* the link the pending request id of a poll round was sent on
SentOn(id) == rounds[pending[id].target.round].key

\* C38: a message turn removes a pending entry, and resolves its request,
\* only if the frame arrived on a socket of the link the request was sent on.
C38_ResolvedByOwnLink ==
    [][turn'.type = "message" =>
          \A id \in DOMAIN pending \ DOMAIN pending' :
              sockets[turn'.sock].key = SentOn(id)]_vars


-----------------------------------------------------------------------------
(* C39: a poll round and the online mark *)

\* C39: the turn in which a poll round ends changes online and error of no
\* agent, and an agent goes from offline to online only in the turn of a
\* hello-ok response; so a round that ends after its link dropped leaves the
\* agents offline with the reason of the drop.
C39_RoundKeepsOnlineAndError ==
    [][/\ Ended # {} =>
             \A id \in DOMAIN state \cap DOMAIN state' :
                 /\ state'[id].online = state[id].online
                 /\ state'[id].error = state[id].error
       /\ \A id \in DOMAIN state' :
             /\ state'[id].online
             /\ id \in DOMAIN state => ~state[id].online
             => /\ turn'.type = "message" /\ turn'.msg # Null
                /\ turn'.msg[1].type = "res" /\ IsHelloOk(turn'.msg[1])]_vars

\* the link dropped while a round was waiting; the round has just ended by
\* the timer of its last request and stored the health it got, and alice is
\* still offline with the reason of the close
C39_Witness ==
    /\ turn.type = "callTimeout" /\ rounds = <<>>
    /\ Len(emitted) >= 1
    /\ Len(gateways) >= 1 /\ gateways[1].rawData # Null
    /\ gateways[1].rawData[1].health # Null
    /\ gateways[1].state = "disconnected"
    /\ "alice" \in DOMAIN state
    /\ ~state["alice"].online
    /\ state["alice"].error = Some(<<"disconnected (code ", 1006, ")">>)
    /\ state["alice"].health # Null
    /\ state["alice"].health[1].type = "data"


-----------------------------------------------------------------------------
(* C40: the shape of the forest *)

\* C40: the forest of getTraces has at most two levels and holds no session
\* twice: every child is a session that is no main session, it hangs under
\* the root named by its parent key, that root's key ends with :main, and a
\* child has no children; the summary's maxDepth is at most 2.
C40_ForestIsTwoLevels ==
    returned # Null =>
        /\ Depth(Forest) <= 2
        /\ returned[1].summary.maxDepth <= 2
        /\ \A r \in Range(Forest) : \A c \in Range(r.children) :
              /\ c.children = <<>>
              /\ ~c.isMain
              /\ c.parentKey = Some(r.key)
              /\ EndsWithMain(r.key) /\ r.isMain
        /\ \A i, j \in 1..Len(Flat(Forest)) :
              Flat(Forest)[i].key = Flat(Forest)[j].key => i = j

\* agent:x:main is a root with the child agent:x:subagent:1, next to the
\* roots agent:x:subagent:main and agent:y:subagent:1, whose parent is not
\* indexed
C40_Witness ==
    /\ returned # Null
    /\ IsChildOf(<<"agent", "x", "subagent", "1">>, MainX)
    /\ <<"agent", "x", "subagent", "main">> \in RootKeys
    /\ <<"agent", "y", "subagent", "1">> \in RootKeys
    /\ Depth(Forest) = 2

=============================================================================
